---- MODULE Spec2Model ----
(***************************************************************************)
(* Extension enablement resolution and settings synchronisation of         *)
(* pi-extmgr (src/src/packages/extensions.ts).                             *)
(*                                                                         *)
(* JavaScript strings are sequences of one-character strings, so that      *)
(* trim(), slice(), the regular-expression replacements and the glob       *)
(* matching are computed character by character.                           *)
(***************************************************************************)
EXTENDS Integers, Sequences, FiniteSets, TLC

VARIABLES
    fFilters,   \* resolver input: the `filters` argument of getPackageFilterState
    fPath,      \* resolver input: the `extensionPath` argument
    fState,     \* resolver output ("none" before the call)
    files,      \* scope -> raw content of that scope's settings.json
    tmp,        \* caller -> content of the caller's temporary file
    pc,         \* caller -> position inside setPackageExtensionState
    call,       \* caller -> arguments and locals of the running call
    lastGet,    \* outcome of the last getPackageExtensionState call
    setsLeft,   \* number of setPackageExtensionState calls still allowed
    crashed,    \* TRUE once the process has stopped
    globThrows, \* TRUE when the build's glob library raises on a malformed pattern
    dFiles,     \* relative paths of the regular files under the package root
    dManifest,  \* content of the package root's package.json
    dRuns,      \* results of the discoverEntrypoints runs so far, oldest first
    cPackages,  \* the `packages` argument of discoverPackageExtensions
    cCatalog,   \* the outcome of discoverPackageExtensions
    pOptions,   \* the RetryOptions of the running retryWithBackoff call
    attempt,    \* the loop variable `attempt` of retryWithBackoff
    evals,      \* number of times the polled condition has been evaluated
    delays,     \* the delays waited between attempts, oldest first
    pResult,    \* "idle", "running", or what retryWithBackoff returned
    mpc,        \* position inside the running install / update / remove
    mOp,        \* arguments and locals of the running install / update / remove
    targets,    \* the RemovalTarget list of the running removal
    results,    \* the RemovalExecutionResult list of the running removal
    reloaded,   \* the `reloaded` field of the PackageMutationOutcome
    execCalls,  \* the pi.exec calls issued, oldest first
    history,    \* the change-history entries appended, oldest first
    notes,      \* the notifications emitted, oldest first
    reloadRequests, \* number of confirmReload calls
    listing,    \* the installed packages `pi list` reports now
    settled,    \* the installed packages `pi list` reports once changes are visible
    knownUpdates, \* the updatesAvailable list of the auto-update configuration
    argv,       \* the argument tokens of the /extensions install command
    raised,     \* "none", or the error that left the command handler
    rootLookup, \* the running resolveNpmPackageRoot call: its inputs and its result
    applyCall, \* the running applyPackageExtensionChanges call: its arguments, locals and effects
    autoUpdateTimer, \* the module variable autoUpdateTimer: 0 for null, else the handle of an interval
    liveTimers, \* the handles of the intervals created and not cleared
    timersCreated, \* number of setInterval calls so far
    auConfig, \* the auto-update configuration getAutoUpdateConfig returns
    lastTimerCall, \* the last call or event that reached the timer module
    mgrPc, \* position of showInteractive: "closed", "loop", "list", "prompt" or "exited"
    mItems, \* the UnifiedItem list of the running showInteractiveOnce call, by item id
    mStaged, \* the `staged` Map of the running showInteractiveOnce call
    diskState, \* the state on disk of each local extension
    pendingResult, \* the UnifiedAction the unsaved-changes prompt is open for
    lastLeave \* the last answer to the unsaved-changes prompt, with the pending count and the disk state it was given at

vars == <<fFilters, fPath, fState, files, tmp, pc, call, lastGet, setsLeft, crashed,
          globThrows, dFiles, dManifest, dRuns, cPackages, cCatalog,
          pOptions, attempt, evals, delays, pResult,
          mpc, mOp, targets, results, reloaded, execCalls, history, notes,
          reloadRequests, listing, settled, knownUpdates, argv, raised,
          rootLookup, applyCall,
          autoUpdateTimer, liveTimers, timersCreated, auConfig, lastTimerCall,
          mgrPc, mItems, mStaged, diskState, pendingResult, lastLeave>>

filterVars == <<fFilters, fPath, fState, globThrows>>
storeVars == <<files, tmp, pc, call, lastGet, setsLeft, crashed>>
discVars == <<dFiles, dManifest, dRuns>>
catVars == <<cPackages, cCatalog>>
pollVars == <<pOptions, attempt, evals, delays, pResult>>
flowVars == <<mpc, mOp, targets, results, reloaded>>
logVars == <<execCalls, history, notes, reloadRequests>>
envVars == <<listing, settled, knownUpdates>>
cmdVars == <<argv, raised>>
rootVars == <<rootLookup>>
applyVars == <<applyCall>>
timerVars == <<autoUpdateTimer, liveTimers, timersCreated, auConfig, lastTimerCall>>
mgrVars == <<mgrPc, mItems, mStaged, diskState, pendingResult, lastLeave>>
laterVars == <<cmdVars, rootVars, applyVars, timerVars, mgrVars>>
exceptCmd == <<rootVars, applyVars, timerVars, mgrVars>>
exceptRoot == <<cmdVars, applyVars, timerVars, mgrVars>>
exceptApply == <<cmdVars, rootVars, timerVars, mgrVars>>
exceptTimer == <<cmdVars, rootVars, applyVars, mgrVars>>
exceptMgr == <<cmdVars, rootVars, applyVars, timerVars>>
coordVars == <<pollVars, flowVars, logVars, envVars>>
mutVars == <<pollVars, flowVars, logVars, envVars, laterVars>>

-----------------------------------------------------------------------------
(* Bounds of the model *)

\* longest token list drawn as resolver input
MaxLen == 3
\* number of setPackageExtensionState calls in one behaviour
MaxSets == 2
\* longest manifest token list drawn as discovery input
MaxTokens == 2
\* number of discoverEntrypoints runs over one package root
MaxRuns == 2
\* longest list of installed packages handed to discoverPackageExtensions
MaxPkgs == 2
\* largest maxAttempts drawn for a waitForCondition call of its own
MaxAttempts == 4

-----------------------------------------------------------------------------
(* Characters and string helpers (String.prototype.trim, slice, replace) *)

WhiteSpace == {" ", "\t"}

RECURSIVE TrimLeft(_)
TrimLeft(s) ==
    IF s # <<>> /\ Head(s) \in WhiteSpace THEN TrimLeft(Tail(s)) ELSE s

RECURSIVE TrimRight(_)
TrimRight(s) ==
    IF s # <<>> /\ s[Len(s)] \in WhiteSpace
    THEN TrimRight(SubSeq(s, 1, Len(s) - 1))
    ELSE s

\* String.prototype.trim
Trim(s) == TrimRight(TrimLeft(s))

\* String.prototype.slice(n)
Slice(s, n) == SubSeq(s, n + 1, Len(s))

\* .replace(/\\/g, "/")
ReplaceBackslashes(s) == [i \in DOMAIN s |-> IF s[i] = "\\" THEN "/" ELSE s[i]]

\* .replace(/^\.\//, ""): one leading "./" only
StripDotSlash(s) ==
    IF Len(s) >= 2 /\ s[1] = "." /\ s[2] = "/" THEN Slice(s, 2) ELSE s

\* .replace(/^\/+/, "")
RECURSIVE StripLeadingSlashes(_)
StripLeadingSlashes(s) ==
    IF s # <<>> /\ Head(s) = "/" THEN StripLeadingSlashes(Tail(s)) ELSE s

normalizeRelativePath(value) ==
    StripLeadingSlashes(StripDotSlash(ReplaceBackslashes(value)))

UpperLetters ==
    <<"A", "B", "C", "D", "E", "F", "G", "H", "I", "J", "K", "L", "M",
      "N", "O", "P", "Q", "R", "S", "T", "U", "V", "W", "X", "Y", "Z">>
LowerLetters ==
    <<"a", "b", "c", "d", "e", "f", "g", "h", "i", "j", "k", "l", "m",
      "n", "o", "p", "q", "r", "s", "t", "u", "v", "w", "x", "y", "z">>

\* lower-casing, as the /i flag of a regular expression compares
LowerTable ==
    [c \in {UpperLetters[i] : i \in DOMAIN UpperLetters} |->
        LowerLetters[CHOOSE i \in DOMAIN UpperLetters : UpperLetters[i] = c]]

LowerChar(c) == IF c \in DOMAIN LowerTable THEN LowerTable[c] ELSE c

LowerCase(s) == [i \in DOMAIN s |-> LowerChar(s[i])]

EndsWith(s, suffix) ==
    /\ Len(s) >= Len(suffix)
    /\ SubSeq(s, Len(s) - Len(suffix) + 1, Len(s)) = suffix

DecoFiltered == <<"(", "f", "i", "l", "t", "e", "r", "e", "d", ")">>
DecoPinned == <<"(", "p", "i", "n", "n", "e", "d", ")">>

\* .replace(/\s+\((filtered|pinned)\)$/i, ""): the decoration and the whole
\* run of white space before it, when at least one white-space character
\* precedes the decoration
StripDecoration(s) ==
    LET low == LowerCase(s)
        deco == IF EndsWith(low, DecoFiltered) THEN DecoFiltered
                ELSE IF EndsWith(low, DecoPinned) THEN DecoPinned
                ELSE <<>>
        rest == SubSeq(s, 1, Len(s) - Len(deco))
    IN  IF deco # <<>> /\ rest # <<>> /\ rest[Len(rest)] \in WhiteSpace
        THEN TrimRight(rest)
        ELSE s

normalizeSource(source) == Trim(StripDecoration(Trim(source)))

-----------------------------------------------------------------------------
(* Glob matching (node:path matchesGlob) for the pattern language the      *)
(* model draws from: literal characters, "?" and "*" inside one path       *)
(* segment.  A wildcard at the start of a segment does not match a leading *)
(* dot.  On a pattern with an unclosed "[" the library either raises or    *)
(* takes the bracket for a literal character, depending on the build:      *)
(* globThrows is that choice.  The outcome of a match is "true", "false"   *)
(* or "throws".                                                            *)

RECURSIVE SplitSegments(_, _)
SplitSegments(s, cur) ==
    IF s = <<>> THEN <<cur>>
    ELSE IF Head(s) = "/" THEN <<cur>> \o SplitSegments(Tail(s), <<>>)
    ELSE SplitSegments(Tail(s), Append(cur, Head(s)))

RECURSIVE WildMatch(_, _)
WildMatch(seg, pat) ==
    IF pat = <<>> THEN seg = <<>>
    ELSE IF Head(pat) = "*"
         THEN \/ WildMatch(seg, Tail(pat))
              \/ seg # <<>> /\ WildMatch(Tail(seg), pat)
    ELSE IF Head(pat) = "?"
         THEN seg # <<>> /\ WildMatch(Tail(seg), Tail(pat))
    ELSE seg # <<>> /\ Head(seg) = Head(pat) /\ WildMatch(Tail(seg), Tail(pat))

HasWildcard(pat) == \E i \in DOMAIN pat : pat[i] \in {"*", "?"}

SegmentMatch(seg, pat) ==
    IF ~HasWildcard(pat) THEN seg = pat
    ELSE /\ seg # <<>>
         /\ ~(Head(seg) = "." /\ Head(pat) \in {"*", "?"})
         /\ WildMatch(seg, pat)

\* a pattern with a "[" that no later "]" closes
Malformed(pattern) ==
    \E i \in DOMAIN pattern :
        pattern[i] = "[" /\ \A j \in (i + 1)..Len(pattern) : pattern[j] # "]"

matchesGlob(targetPath, pattern) ==
    LET ts == SplitSegments(targetPath, <<>>)
        ps == SplitSegments(pattern, <<>>)
    IN  IF Malformed(pattern) /\ globThrows THEN "throws"
        ELSE IF Len(ts) = Len(ps) /\ \A i \in DOMAIN ts : SegmentMatch(ts[i], ps[i])
        THEN "true"
        ELSE "false"

\* safeMatchesGlob without the try/catch of lines 210-214
safeMatchesGlobNoCatch(targetPath, pattern) == matchesGlob(targetPath, pattern)

\* try { return matchesGlob(...) } catch { return false }
safeMatchesGlob(targetPath, pattern) ==
    IF matchesGlob(targetPath, pattern) = "throws" THEN "false"
    ELSE matchesGlob(targetPath, pattern)

matchesFilterPattern(targetPath, pattern) ==
    LET normalizedPattern == normalizeRelativePath(Trim(pattern))
    IN  IF normalizedPattern = <<>> THEN "false"
        ELSE IF targetPath = normalizedPattern THEN "true"
        ELSE safeMatchesGlob(targetPath, normalizedPattern)

-----------------------------------------------------------------------------
(* Filter policy resolver: getPackageFilterState                           *)
(*                                                                         *)
(* `filters` is a record [kind, list]: kind "undefined" is the omitted     *)
(* key, kind "array" carries the token list.                              *)

NoFilters == [kind |-> "undefined", list |-> <<>>]
Filters(list) == [kind |-> "array", list |-> list]

\* the loop of lines 241-267, one accumulator at a time
RECURSIVE MarkerScan(_, _, _)
MarkerScan(list, normalizedTarget, acc) ==
    IF list = <<>> THEN acc
    ELSE LET token == Trim(Head(list))
             isMarker == token # <<>> /\ token[1] \in {"+", "-"}
             hit == isMarker /\ normalizeRelativePath(Slice(token, 1)) = normalizedTarget
             next == IF hit
                     THEN (IF token[1] = "+" THEN "enabled" ELSE "disabled")
                     ELSE acc
         IN  MarkerScan(Tail(list), normalizedTarget, next)

MarkerFirstWins(list, normalizedTarget) ==
    LET hits == {i \in DOMAIN list :
                    LET token == Trim(list[i])
                    IN  /\ token # <<>>
                        /\ token[1] \in {"+", "-"}
                        /\ normalizeRelativePath(Slice(token, 1)) = normalizedTarget}
    IN  IF hits = {} THEN "undefined"
        ELSE LET i == CHOOSE j \in hits : \A k \in hits : j <= k
             IN  IF Trim(list[i])[1] = "+" THEN "enabled" ELSE "disabled"

\* markerOverride after the loop: "undefined", "enabled" or "disabled"
markerOverride(list, normalizedTarget) ==
    MarkerScan(list, normalizedTarget, "undefined")

\* a resolver that collects no exclude pattern
NoExcludePatterns(list) == <<>>

RECURSIVE excludePatterns(_)
excludePatterns(list) ==
    IF list = <<>> THEN <<>>
    ELSE LET token == Trim(Head(list))
             pattern == normalizeRelativePath(Slice(token, 1))
         IN  IF token # <<>> /\ token[1] = "!" /\ pattern # <<>>
             THEN <<pattern>> \o excludePatterns(Tail(list))
             ELSE excludePatterns(Tail(list))

\* the include collection without the `if (include)` test of line 264
RECURSIVE includePatternsKeepEmpty(_)
includePatternsKeepEmpty(list) ==
    IF list = <<>> THEN <<>>
    ELSE LET token == Trim(Head(list))
         IN  IF token # <<>> /\ token[1] \notin {"+", "-", "!"}
             THEN <<normalizeRelativePath(token)>> \o includePatternsKeepEmpty(Tail(list))
             ELSE includePatternsKeepEmpty(Tail(list))

RECURSIVE includePatterns(_)
includePatterns(list) ==
    IF list = <<>> THEN <<>>
    ELSE LET token == Trim(Head(list))
             include == normalizeRelativePath(token)
         IN  IF token # <<>> /\ token[1] \notin {"+", "-", "!"} /\ include # <<>>
             THEN <<include>> \o includePatterns(Tail(list))
             ELSE includePatterns(Tail(list))

\* patterns.some((p) => matchesFilterPattern(target, p)): the patterns in
\* order up to the first match, "throws" when a call raises before it
RECURSIVE SomeMatch(_, _)
SomeMatch(patterns, target) ==
    IF patterns = <<>> THEN "false"
    ELSE LET outcome == matchesFilterPattern(target, Head(patterns))
         IN  IF outcome = "false" THEN SomeMatch(Tail(patterns), target)
             ELSE outcome

\* lines 269-281
FilterVerdict(list, normalizedTarget) ==
    LET includes == includePatterns(list)
        excludes == excludePatterns(list)
        override == markerOverride(list, normalizedTarget)
        base == IF includes = <<>> THEN "true" ELSE SomeMatch(includes, normalizedTarget)
        excluded == IF base = "true" THEN SomeMatch(excludes, normalizedTarget) ELSE "false"
        enabled == IF override # "undefined" THEN override = "enabled"
                   ELSE base = "true" /\ excluded = "false"
    IN  IF base = "throws" \/ excluded = "throws" THEN "throws"
        ELSE IF enabled THEN "enabled" ELSE "disabled"

\* a JSON null standing where a string token is expected
NullToken == <<"#null">>

HasNonString(list) == \E i \in DOMAIN list : list[i] = NullToken

\* the resolver without the `filters.length === 0` test of lines 232-234
FilterStateNoEmptyCheck(filters, extensionPath) ==
    IF filters.kind = "undefined" THEN "enabled"
    ELSE FilterVerdict(filters.list, normalizeRelativePath(extensionPath))

\* "throws" is the TypeError of `filters.length` on null (line 232) and of
\* `rawToken.trim()` on a token that is not a string (line 242)
getPackageFilterState(filters, extensionPath) ==
    IF filters.kind = "undefined" THEN "enabled"
    ELSE IF filters.kind = "null" THEN "throws"
    ELSE IF Len(filters.list) = 0 THEN "disabled"
    ELSE IF HasNonString(filters.list) THEN "throws"
    ELSE FilterVerdict(filters.list, normalizeRelativePath(extensionPath))

-----------------------------------------------------------------------------
(* Strings the model draws its inputs from *)

S_a == <<"a", ".", "t", "s">>                       \* "a.ts"
S_b == <<"b", ".", "t", "s">>                       \* "b.ts"
S_dot_a == <<".", "/">> \o S_a                      \* "./a.ts"
S_sl_dot_a == <<"/", ".", "/">> \o S_a              \* "/./a.ts"
S_x_a == <<"x", "/">> \o S_a                        \* "x/a.ts"
S_xb_a == <<"x", "\\">> \o S_a                      \* "x\a.ts"
S_a_sp == S_a \o <<" ">>                            \* "a.ts "
S_star_ts == <<"*", ".", "t", "s">>                 \* "*.ts"
S_x_star == <<"x", "/", "*">>                       \* "x/*"
S_note == <<"n", ":", "k">>                         \* "n:k"
S_badglob == <<"[", "a">>                           \* "[a"
S_badstar == <<"[", "*">>                           \* "[*"
S_dotslash == <<".", "/">>                          \* "./"

Plus(s) == <<"+">> \o s
Minus(s) == <<"-">> \o s
Bang(s) == <<"!">> \o s

FilterPaths == {S_a, S_dot_a, S_sl_dot_a, S_xb_a, S_b, S_a_sp}

FilterTokens ==
    { Plus(S_a), Minus(S_a), Minus(S_dot_a), <<" ">> \o Plus(S_a) \o <<" ">>,
      Plus(S_x_a), Bang(S_a), Bang(S_star_ts), Bang(S_x_star),
      S_star_ts, S_b, S_x_star, S_note, <<>>, S_dotslash }

\* paths and tokens for the resolver on malformed glob patterns
GlobPaths == {S_a, S_dot_a, S_b, S_badglob}

GlobTokens ==
    { S_badglob, Bang(S_badglob), Bang(S_badstar), S_star_ts, S_b,
      Bang(S_a), Plus(S_a), <<>> }

RECURSIVE SeqsUpTo(_, _)
SeqsUpTo(S, n) ==
    IF n = 0 THEN {<<>>}
    ELSE LET shorter == SeqsUpTo(S, n - 1)
         IN  shorter \cup {Append(q, x) : q \in {r \in shorter : Len(r) = n - 1}, x \in S}

FilterInputs == {NoFilters} \cup {Filters(l) : l \in SeqsUpTo(FilterTokens, MaxLen)}

GlobInputs == {Filters(l) : l \in SeqsUpTo(GlobTokens, MaxLen)}

-----------------------------------------------------------------------------
(* Settings documents                                                      *)
(*                                                                         *)
(* A settings document is [packages, other]: `packages` is [kind, list]    *)
(* with kind "absent" (no key), "array", or "bad" (a value that is neither *)
(* an array nor null, such as a number); `other` stands for the remaining  *)
(* top-level keys.  A package entry is [kind, source, extensions] with     *)
(* kind "string" (bare source), "object" or "null"; `extensions` is        *)
(* [kind, list] with kind "undefined", "array" or "null".                  *)
(* The raw content of a file is [kind, doc] with kind "missing", "empty",  *)
(* "invalid" (not JSON), "nonobject" (JSON, not an object), "unreadable"   *)
(* (readFile fails with an error other than ENOENT) or "object".           *)

Scopes == {"global", "project"}

NullFilters == [kind |-> "null", list |-> <<>>]

BareEntry(source) == [kind |-> "string", source |-> source, extensions |-> NoFilters]
ObjectEntry(source, extensions) ==
    [kind |-> "object", source |-> source, extensions |-> extensions]
NullEntry == [kind |-> "null", source |-> <<>>, extensions |-> NoFilters]

NoPackages == [kind |-> "absent", list |-> <<>>]
BadPackages == [kind |-> "bad", list |-> <<>>]
Packages(list) == [kind |-> "array", list |-> list]

EmptyDoc == [packages |-> NoPackages, other |-> "none"]

RawMissing == [kind |-> "missing", doc |-> EmptyDoc]
RawEmpty == [kind |-> "empty", doc |-> EmptyDoc]
RawInvalid == [kind |-> "invalid", doc |-> EmptyDoc]
RawNonObject == [kind |-> "nonobject", doc |-> EmptyDoc]
RawUnreadable == [kind |-> "unreadable", doc |-> EmptyDoc]

\* `${JSON.stringify(settings, null, 2)}\n` (line 196): the text of an object
JSONstringify(settings) == [kind |-> "object", doc |-> settings]

Thrown(message) == [ok |-> FALSE, settings |-> EmptyDoc, error |-> message]
Returned(settings) == [ok |-> TRUE, settings |-> settings, error |-> "none"]

\* readSettingsFile that ignores the strict flag
readSettingsFileLenient(raw, strict) ==
    IF raw.kind = "object" THEN Returned(raw.doc) ELSE Returned(EmptyDoc)

\* readSettingsFile that always reads strictly
readSettingsFileStrict(raw, strict) ==
    CASE raw.kind \in {"missing", "empty"} -> Returned(EmptyDoc)
      [] raw.kind = "invalid" -> Thrown("Invalid JSON")
      [] raw.kind = "nonobject" -> Thrown("Invalid settings format")
      [] raw.kind = "unreadable" -> Thrown("read error")
      [] OTHER -> Returned(raw.doc)

readSettingsFile(raw, strict) ==
    CASE raw.kind = "missing" -> Returned(EmptyDoc)
      [] raw.kind = "empty" -> Returned(EmptyDoc)
      [] raw.kind = "invalid" ->
            IF strict THEN Thrown("Invalid JSON") ELSE Returned(EmptyDoc)
      [] raw.kind = "nonobject" ->
            IF strict THEN Thrown("Invalid settings format") ELSE Returned(EmptyDoc)
      [] raw.kind = "unreadable" ->
            IF strict THEN Thrown("read error") ELSE Returned(EmptyDoc)
      [] OTHER -> Returned(raw.doc)

\* findIndex / find of lines 295-300 and 502-507: the position of the first
\* entry whose normalized source is normalizedSource, 0 when there is none
\* (-1 in the code), -1 when the callback throws on a null entry first
RECURSIVE FindFrom(_, _, _)
FindFrom(list, i, normalizedSource) ==
    IF i > Len(list) THEN 0
    ELSE IF list[i].kind = "null" THEN -1
    ELSE IF normalizeSource(list[i].source) = normalizedSource THEN i
    ELSE FindFrom(list, i + 1, normalizedSource)

\* findIndex that compares the entries' sources as written
RECURSIVE FindExactFrom(_, _, _)
FindExactFrom(list, i, normalizedSource) ==
    IF i > Len(list) THEN 0
    ELSE IF list[i].kind = "null" THEN -1
    ELSE IF list[i].source = normalizedSource THEN i
    ELSE FindExactFrom(list, i + 1, normalizedSource)

findIndexExact(list, normalizedSource) == FindExactFrom(list, 1, normalizedSource)

findIndex(list, normalizedSource) == FindFrom(list, 1, normalizedSource)

\* getPackageExtensionState on the raw content of the scope's settings file
getPackageExtensionState(raw, packageSource, extensionPath) ==
    LET read == readSettingsFile(raw, FALSE)
        settings == read.settings
        packages == settings.packages
        index == findIndex(packages.list, normalizeSource(packageSource))
    IN  IF ~read.ok THEN "throws"
        ELSE IF packages.kind = "bad" THEN "throws"
        ELSE IF index = -1 THEN "throws"
        ELSE IF index = 0 THEN "enabled"
        ELSE IF packages.list[index].kind = "string" THEN "enabled"
        ELSE getPackageFilterState(packages.list[index].extensions, extensionPath)

\* the filter of lines 527-531: non-strings go, tokens that do not begin
\* with "+" or "-" stay, markers stay unless they name normalizedPath
KeepToken(token, normalizedPath) ==
    /\ token # NullToken
    /\ \/ token = <<>>
       \/ token[1] \notin {"+", "-"}
       \/ normalizeRelativePath(Slice(token, 1)) # normalizedPath

filterTokens(list, normalizedPath) ==
    LET Keep(token) == KeepToken(token, normalizedPath)
    IN  SelectSeq(list, Keep)

\* a slip: the document written is built anew with the packages list only
mutateSettingsPackagesOnly(settings, packageSource, extensionPath, target) ==
    LET normalizedSource == normalizeSource(packageSource)
        normalizedPath == normalizeRelativePath(extensionPath)
        marker == <<IF target = "enabled" THEN "+" ELSE "-">> \o normalizedPath
        packages == settings.packages.list
        index == findIndex(packages, normalizedSource)
        existing == packages[index]
        oldTokens == IF existing.kind = "object" /\ existing.extensions.kind = "array"
                     THEN existing.extensions.list
                     ELSE <<>>
        packageEntry ==
            ObjectEntry(existing.source,
                        Filters(Append(filterTokens(oldTokens, normalizedPath), marker)))
        newList ==
            IF index = 0
            THEN Append(packages, ObjectEntry(packageSource, Filters(<<marker>>)))
            ELSE [packages EXCEPT ![index] = packageEntry]
    IN  IF settings.packages.kind = "bad" THEN Thrown("TypeError")
        ELSE IF index = -1 THEN Thrown("TypeError")
        ELSE Returned([EmptyDoc EXCEPT !.packages = Packages(newList)])

\* lines 497-536: the settings object handed to writeSettingsFile, or the
\* TypeError thrown on the way
mutateSettings(settings, packageSource, extensionPath, target) ==
    LET normalizedSource == normalizeSource(packageSource)
        normalizedPath == normalizeRelativePath(extensionPath)
        marker == <<IF target = "enabled" THEN "+" ELSE "-">> \o normalizedPath
        packages == settings.packages.list
        index == findIndex(packages, normalizedSource)
        existing == packages[index]
        oldTokens == IF existing.kind = "object" /\ existing.extensions.kind = "array"
                     THEN existing.extensions.list
                     ELSE <<>>
        packageEntry ==
            ObjectEntry(existing.source,
                        Filters(Append(filterTokens(oldTokens, normalizedPath), marker)))
        newList ==
            IF index = 0
            THEN Append(packages, ObjectEntry(packageSource, Filters(<<marker>>)))
            ELSE [packages EXCEPT ![index] = packageEntry]
    IN  IF settings.packages.kind = "bad" THEN Thrown("TypeError")
        ELSE IF index = -1 THEN Thrown("TypeError")
        ELSE Returned([settings EXCEPT !.packages = Packages(newList)])

-----------------------------------------------------------------------------
(* Entrypoint discovery: discoverEntrypoints                               *)
(*                                                                         *)
(* A package root is the set dFiles of the relative paths of its regular  *)
(* files (package.json apart) and the manifest dManifest, a record         *)
(* [kind, entries]: kind "absent" (no package.json), "unparsable" (not     *)
(* JSON), "null" (the JSON value null), "nolist" (any other JSON value     *)
(* without an array at pi.extensions) or "list" (pi.extensions is the      *)
(* array `entries`, whose non-string values are NullToken).  readdir       *)
(* returns the entries of a directory in no specified order, so every run  *)
(* walks the files in a traversal order of its own.                        *)

StartsWith(s, prefix) ==
    Len(s) >= Len(prefix) /\ SubSeq(s, 1, Len(prefix)) = prefix

Includes(s, sub) ==
    \E i \in 1..(Len(s) - Len(sub) + 1) : SubSeq(s, i, i + Len(sub) - 1) = sub

\* /\.(ts|js)$/i
isExtensionEntrypointPath(path) ==
    \/ EndsWith(LowerCase(path), <<".", "t", "s">>)
    \/ EndsWith(LowerCase(path), <<".", "j", "s">>)

\* /[*?{}[\]]/
hasGlobMagic(path) == \E i \in DOMAIN path : path[i] \in {"*", "?", "{", "}", "[", "]"}

\* a check that lets every path through
isSafeRelativePathLax(path) == path # <<>>

isSafeRelativePath(path) ==
    /\ path # <<>>
    /\ path # <<".", ".">>
    /\ ~StartsWith(path, <<".", ".", "/">>)
    /\ ~Includes(path, <<"/", ".", ".", "/">>)

\* .replace(/[\\/]+$/g, "")
RECURSIVE StripTrailingSlashes(_)
StripTrailingSlashes(s) ==
    IF s # <<>> /\ s[Len(s)] \in {"/", "\\"}
    THEN StripTrailingSlashes(SubSeq(s, 1, Len(s) - 1))
    ELSE s

selectDirectoryFiles(allFiles, directoryPath) ==
    LET InDirectory(file) == StartsWith(file, directoryPath \o <<"/">>)
    IN  SelectSeq(allFiles, InDirectory)

InSeq(x, q) == \E i \in DOMAIN q : q[i] = x

\* a selection that adds the files whatever the exclusion flag
RECURSIVE applySelectionAddOnly(_, _, _)
applySelectionAddOnly(selected, fileList, exclude) ==
    IF fileList = <<>> THEN selected
    ELSE applySelectionAddOnly(
            IF InSeq(Head(fileList), selected) THEN selected
            ELSE Append(selected, Head(fileList)),
            Tail(fileList), exclude)

\* the Set `selected` is the sequence of its members in insertion order
RECURSIVE applySelection(_, _, _)
applySelection(selected, fileList, exclude) ==
    IF fileList = <<>> THEN selected
    ELSE LET file == Head(fileList)
             Other(f) == f # file
             next == IF exclude THEN SelectSeq(selected, Other)
                     ELSE IF InSeq(file, selected) THEN selected
                     ELSE Append(selected, file)
         IN  applySelection(next, Tail(fileList), exclude)

\* the walk of lines 349-365 over the regular files in traversal order
collectExtensionFilesFromDir(order) ==
    LET relativePaths == [i \in DOMAIN order |-> normalizeRelativePath(order[i])]
    IN  SelectSeq(relativePaths, isExtensionEntrypointPath)

\* a glob pattern that stands for every file of the listing
patternFilesAll(allFiles, pattern) ==
    IF hasGlobMagic(pattern) THEN allFiles
    ELSE IF selectDirectoryFiles(allFiles, pattern) # <<>>
         THEN selectDirectoryFiles(allFiles, pattern)
    ELSE IF isExtensionEntrypointPath(pattern) THEN <<pattern>>
    ELSE <<>>

\* the files one manifest pattern stands for (lines 388-402)
patternFiles(allFiles, pattern) ==
    LET Matches(file) == matchesFilterPattern(file, pattern) = "true"
    IN  IF hasGlobMagic(pattern) THEN SelectSeq(allFiles, Matches)
        ELSE IF selectDirectoryFiles(allFiles, pattern) # <<>>
             THEN selectDirectoryFiles(allFiles, pattern)
        ELSE IF isExtensionEntrypointPath(pattern) THEN <<pattern>>
        ELSE <<>>

\* the pattern of a trimmed manifest token (lines 381-383)
tokenPattern(token) ==
    LET exclude == StartsWith(token, <<"!">>)
    IN  StripTrailingSlashes(normalizeRelativePath(IF exclude THEN Slice(token, 1) ELSE token))

\* the loop of lines 377-403
RECURSIVE selectEntries(_, _, _)
selectEntries(entries, allFiles, selected) ==
    IF entries = <<>> THEN selected
    ELSE LET token == Trim(Head(entries))
             pattern == tokenPattern(token)
             next == IF token = <<>> \/ ~isSafeRelativePath(pattern) THEN selected
                     ELSE applySelection(selected, patternFiles(allFiles, pattern),
                                         StartsWith(token, <<"!">>))
         IN  selectEntries(Tail(entries), allFiles, next)

\* the order of a.localeCompare(b) on the characters of the model: the
\* collation order of punctuation, digits and letters, where the case of a
\* letter counts only between strings that are equal apart from case
CollationOrder ==
    <<" ", "_", "-", ":", "!", ".", "[", "]", "*", "/", "\\", "+">> \o LowerLetters

RankTable ==
    [c \in {CollationOrder[i] : i \in DOMAIN CollationOrder} |->
        CHOOSE i \in DOMAIN CollationOrder : CollationOrder[i] = c]

CollationRank(c) == RankTable[LowerChar(c)]

RECURSIVE PrimaryCompare(_, _)
PrimaryCompare(a, b) ==
    IF a = <<>> /\ b = <<>> THEN 0
    ELSE IF a = <<>> THEN -1
    ELSE IF b = <<>> THEN 1
    ELSE IF CollationRank(Head(a)) < CollationRank(Head(b)) THEN -1
    ELSE IF CollationRank(Head(a)) > CollationRank(Head(b)) THEN 1
    ELSE PrimaryCompare(Tail(a), Tail(b))

\* between strings equal apart from case: lower case first at the first
\* character that differs
RECURSIVE CaseCompare(_, _)
CaseCompare(a, b) ==
    IF a = <<>> THEN 0
    ELSE IF Head(a) = Head(b) THEN CaseCompare(Tail(a), Tail(b))
    ELSE IF Head(a) = LowerChar(Head(a)) THEN -1
    ELSE 1

localeCompare(a, b) ==
    IF PrimaryCompare(a, b) # 0 THEN PrimaryCompare(a, b) ELSE CaseCompare(a, b)

\* Array.prototype.sort((a, b) => a.localeCompare(b)): a stable sort
RECURSIVE InsertSorted(_, _)
InsertSorted(sorted, x) ==
    IF sorted = <<>> THEN <<x>>
    ELSE IF localeCompare(x, Head(sorted)) < 0 THEN <<x>> \o sorted
    ELSE <<Head(sorted)>> \o InsertSorted(Tail(sorted), x)

RECURSIVE SortPaths(_)
SortPaths(list) ==
    IF list = <<>> THEN <<>>
    ELSE InsertSorted(SortPaths(SubSeq(list, 1, Len(list) - 1)), list[Len(list)])

\* the manifest resolution that returns the selection in insertion order
resolveManifestExtensionEntriesUnsorted(order, entries) ==
    selectEntries(entries, collectExtensionFilesFromDir(order), <<>>)

resolveManifestExtensionEntries(order, entries) ==
    SortPaths(selectEntries(entries, collectExtensionFilesFromDir(order), <<>>))

NoManifest == [kind |-> "absent", entries |-> <<>>]
ManifestList(entries) == [kind |-> "list", entries |-> entries]

NoEntrypoints == [kind |-> "undefined", list |-> <<>>]
Entrypoints(list) == [kind |-> "array", list |-> list]
DiscoveryThrows == [kind |-> "throws", list |-> <<>>]

IsStringToken(token) == token # NullToken

\* lines 408-428: `parsed.pi` on the JSON value null is a TypeError raised
\* outside the try block
resolveManifestExtensionEntrypoints(order, manifest) ==
    CASE manifest.kind \in {"absent", "unparsable"} -> NoEntrypoints
      [] manifest.kind = "null" -> DiscoveryThrows
      [] manifest.kind = "nolist" -> NoEntrypoints
      [] OTHER -> Entrypoints(resolveManifestExtensionEntries(order,
                        SelectSeq(manifest.entries, IsStringToken)))

S_index_ts == <<"i", "n", "d", "e", "x", ".", "t", "s">>     \* "index.ts"
S_index_js == <<"i", "n", "d", "e", "x", ".", "j", "s">>     \* "index.js"

\* fileExists of utils/fs: the path names a file of the package root
fileExists(fileSet, path) == path \in fileSet

\* lines 430-447; the result is [kind, list] with kind "array" or "throws"
discoverEntrypoints(fileSet, order, manifest) ==
    LET manifestEntrypoints == resolveManifestExtensionEntrypoints(order, manifest)
    IN  IF manifestEntrypoints.kind # "undefined" THEN manifestEntrypoints
        ELSE IF fileExists(fileSet, S_index_ts) THEN Entrypoints(<<S_index_ts>>)
        ELSE IF fileExists(fileSet, S_index_js) THEN Entrypoints(<<S_index_js>>)
        ELSE Entrypoints(<<>>)

-----------------------------------------------------------------------------
(* Extension catalog builder: discoverPackageExtensions                    *)
(*                                                                         *)
(* An installed package is [source, name, scope, resolvedPath]; its        *)
(* resolvedPath names a package root of Disk, or is "none" for a package   *)
(* whose root toPackageRoot does not find.                                 *)

S_colon_a == <<"x", ":">> \o S_a                          \* "x:a.ts"
Src_d_x == <<"d", ":", "x">>                              \* "d:x"
Src_q == <<"q">>                                          \* "q"

PackageRoot(fileSet, manifest) == [files |-> fileSet, manifest |-> manifest]

RootNames == {"r1", "r2", "r3", "r4", "r5"}

\* the package roots on disk
Disk ==
    [r \in RootNames |->
        CASE r = "r1" -> PackageRoot({S_index_ts}, NoManifest)
          [] r = "r2" -> PackageRoot({S_a, S_b}, ManifestList(<<S_star_ts>>))
          [] r = "r3" -> PackageRoot({S_colon_a}, ManifestList(<<S_star_ts>>))
          [] r = "r4" -> PackageRoot({S_a}, ManifestList(<<S_sl_dot_a, S_a>>))
          [] OTHER -> PackageRoot({S_index_ts}, [kind |-> "null", entries |-> <<>>])]

InstalledPackage(source, name, scope, resolvedPath) ==
    [source |-> source, name |-> name, scope |-> scope, resolvedPath |-> resolvedPath]

\* lines 101-104: the root of a package that carries a resolvedPath
toPackageRoot(pkg) == pkg.resolvedPath

ScopeChars(scope) ==
    IF scope = "global" THEN <<"g", "l", "o", "b", "a", "l">>
    ELSE <<"p", "r", "o", "j", "e", "c", "t">>

IdPrefix == <<"p", "k", "g", "-", "e", "x", "t", ":">>            \* "pkg-ext:"

\* `pkg-ext:${pkg.scope}:${pkg.source}:${normalizedPath}` (line 469)
entryId(scope, source, normalizedPath) ==
    IdPrefix \o ScopeChars(scope) \o <<":">> \o source \o <<":">> \o normalizedPath

\* the record pushed at lines 468-478; the summary is "read" for a file
\* that exists and the generic label otherwise
catalogEntry(pkg, extensionPath, settingsRaw) ==
    LET normalizedPath == normalizeRelativePath(extensionPath)
    IN  [id |-> entryId(pkg.scope, pkg.source, normalizedPath),
         packageSource |-> pkg.source,
         packageName |-> pkg.name,
         packageScope |-> pkg.scope,
         extensionPath |-> normalizedPath,
         absolutePath |-> <<pkg.resolvedPath, normalizedPath>>,
         displayName |-> pkg.name \o <<"/">> \o normalizedPath,
         summary |-> IF fileExists(Disk[pkg.resolvedPath].files, normalizedPath)
                     THEN "read" ELSE "package extension",
         state |-> getPackageExtensionState(settingsRaw, pkg.source, normalizedPath)]

\* the records of one package (lines 456-479), <<>> for a package without
\* a root
packageEntries(pkg, order, settings) ==
    LET root == Disk[pkg.resolvedPath]
        extensionPaths == discoverEntrypoints(root.files, order, root.manifest).list
    IN  [i \in DOMAIN extensionPaths |->
            catalogEntry(pkg, extensionPaths[i], settings[pkg.scope])]

\* the loop of lines 455-480
RECURSIVE collectEntries(_, _, _)
collectEntries(packages, orders, settings) ==
    IF packages = <<>> THEN <<>>
    ELSE (IF toPackageRoot(Head(packages)) = "none" THEN <<>>
          ELSE packageEntries(Head(packages), orders[toPackageRoot(Head(packages))],
                              settings))
         \o collectEntries(Tail(packages), orders, settings)

\* entries.sort((a, b) => a.displayName.localeCompare(b.displayName))
RECURSIVE InsertByDisplayName(_, _)
InsertByDisplayName(sorted, x) ==
    IF sorted = <<>> THEN <<x>>
    ELSE IF localeCompare(x.displayName, Head(sorted).displayName) < 0
         THEN <<x>> \o sorted
    ELSE <<Head(sorted)>> \o InsertByDisplayName(Tail(sorted), x)

RECURSIVE SortByDisplayName(_)
SortByDisplayName(list) ==
    IF list = <<>> THEN <<>>
    ELSE InsertByDisplayName(SortByDisplayName(SubSeq(list, 1, Len(list) - 1)),
                             list[Len(list)])

NoCatalog == [kind |-> "none", entries |-> <<>>]
CatalogThrows == [kind |-> "throws", entries |-> <<>>]

\* discovery or the state lookup of some package raises
CatalogRaises(packages, orders, settings) ==
    \/ \E i \in DOMAIN packages :
          /\ toPackageRoot(packages[i]) # "none"
          /\ discoverEntrypoints(Disk[packages[i].resolvedPath].files,
                                 orders[packages[i].resolvedPath],
                                 Disk[packages[i].resolvedPath].manifest).kind = "throws"
    \/ \E i \in DOMAIN collectEntries(packages, orders, settings) :
          collectEntries(packages, orders, settings)[i].state = "throws"

discoverPackageExtensions(packages, orders, settings) ==
    IF CatalogRaises(packages, orders, settings) THEN CatalogThrows
    ELSE [kind |-> "array",
          entries |-> SortByDisplayName(collectEntries(packages, orders, settings))]

-----------------------------------------------------------------------------
(* Initial settings files and call arguments.  The documents satisfy the  *)
(* invariant of the data model: no two entries of a packages list have    *)
(* the same normalized source.                                            *)

Src_d == <<"d">>                                         \* "d"
Src_d_pinned == <<"d", " ">> \o DecoPinned               \* "d (pinned)"
Src_d_Filtered == <<" ", "d", " ", "(", "F", "i", "l", "t", "e", "r", "e", "d", ")">>
Src_o == <<"o">>                                         \* "o"

Object(list, other) == [kind |-> "object", doc |-> [packages |-> Packages(list), other |-> other]]

InitRaws ==
    { RawMissing, RawEmpty, RawInvalid, RawNonObject, RawUnreadable,
      [kind |-> "object", doc |-> [packages |-> NoPackages, other |-> "theme"]],
      [kind |-> "object", doc |-> [packages |-> BadPackages, other |-> "none"]],
      Object(<<BareEntry(Src_d)>>, "none"),
      Object(<<ObjectEntry(Src_d_pinned, NoFilters), BareEntry(Src_o)>>, "theme"),
      Object(<<ObjectEntry(Src_d, Filters(<<S_note, Minus(S_a), S_star_ts>>))>>, "none"),
      Object(<<ObjectEntry(Src_o, Filters(<<>>)),
               ObjectEntry(Src_d, Filters(<<<<" ">> \o Plus(S_a), Bang(S_a)>>))>>, "none"),
      Object(<<ObjectEntry(Src_d, Filters(<<Plus(S_b), NullToken>>)),
               ObjectEntry(Src_o, NullFilters), NullEntry>>, "none") }

States == {"enabled", "disabled"}

\* <<packageSource, extensionPath, scope, target>> of the calls of
\* setPackageExtensionState
SetCalls ==
    ({Src_d} \X {S_a, S_sl_dot_a} \X {"global"} \X States)
    \cup { <<Src_d_Filtered, S_dot_a, "global", "disabled">>,
           <<Src_d, S_b, "global", "disabled">>,
           <<Src_o, S_a, "global", "enabled">>,
           <<Src_d, S_a, "project", "disabled">> }

\* <<packageSource, extensionPath, scope>> of the calls of
\* getPackageExtensionState
GetCalls == {<<c[1], c[2], c[3]>> : c \in SetCalls}

InitFiles ==
    {[s \in Scopes |-> IF s = "global" THEN r ELSE RawMissing] : r \in InitRaws}
    \cup {[s \in Scopes |-> IF s = "global" THEN RawInvalid
                            ELSE Object(<<BareEntry(Src_d)>>, "none")]}

-----------------------------------------------------------------------------
(* The callers of setPackageExtensionState and the steps of a call *)

Procs == {1, 2}
TmpNames == {"t1", "t2"}

IdleCall ==
    [source |-> <<>>, path |-> <<>>, scope |-> "global", target |-> "enabled",
     before |-> RawMissing, content |-> RawMissing, tmpName |-> "t1",
     fallback |-> FALSE, thrown |-> FALSE, result |-> "none", error |-> "none"]

NoGet ==
    [valid |-> FALSE, source |-> <<>>, path |-> <<>>, scope |-> "global", state |-> "none"]

InFlight(p) == pc[p] \notin {"idle", "done"}

\* `${path}.${process.pid}.${Date.now()}.tmp` (line 197): a caller that
\* computes the name in the same millisecond as a call in flight on the
\* same settings path gets that call's name, any other caller a free name
TmpNameChoices(p, scope) ==
    LET shared == {call[q].tmpName : q \in {r \in Procs \ {p} :
                                              InFlight(r) /\ call[r].scope = scope}}
        used == {call[q].tmpName : q \in {r \in Procs \ {p} : InFlight(r)}}
        free == TmpNames \ used
    IN  shared \cup (IF free = {} THEN {} ELSE {CHOOSE n \in free : TRUE})

\* setPackageExtensionState up to the first write of writeSettingsFile:
\* the strict read, the mutation of lines 497-536, mkdir and the tmp name
SetBegin(p, packageSource, extensionPath, scope, target) ==
    /\ ~crashed
    /\ pc[p] = "idle"
    /\ setsLeft > 0
    /\ setsLeft' = setsLeft - 1
    /\ LET read == readSettingsFile(files[scope], TRUE)
           mutated == IF read.ok
                      THEN mutateSettings(read.settings, packageSource, extensionPath, target)
                      ELSE read
           base == [IdleCall EXCEPT !.source = packageSource, !.path = extensionPath,
                                    !.scope = scope, !.target = target,
                                    !.before = files[scope]]
       IN  IF mutated.ok
           THEN \E name \in TmpNameChoices(p, scope) :
                  /\ call' = [call EXCEPT ![p] =
                                [base EXCEPT !.content = JSONstringify(mutated.settings),
                                             !.tmpName = name]]
                  /\ pc' = [pc EXCEPT ![p] = "tmpwrite"]
           ELSE /\ call' = [call EXCEPT ![p] =
                              [base EXCEPT !.result = "error", !.error = mutated.error]]
                /\ pc' = [pc EXCEPT ![p] = "done"]
    /\ lastGet' = NoGet
    /\ UNCHANGED <<files, tmp, crashed, filterVars, discVars, catVars, mutVars>>

\* a tmp write that lands on the settings path itself
WriteTmpInPlace(p, fails) ==
    /\ ~crashed
    /\ pc[p] = "tmpwrite"
    /\ files' = [files EXCEPT ![call[p].scope] = IF fails THEN RawEmpty ELSE call[p].content]
    /\ pc' = [pc EXCEPT ![p] = IF fails THEN "fallback" ELSE "rename"]
    /\ call' = [call EXCEPT ![p].fallback = fails]
    /\ lastGet' = NoGet
    /\ UNCHANGED <<tmp, setsLeft, crashed, filterVars, discVars, catVars, mutVars>>

\* await writeFile(tmpPath, content, "utf8") (line 200)
WriteTmp(p, fails) ==
    /\ ~crashed
    /\ pc[p] = "tmpwrite"
    /\ tmp' = [tmp EXCEPT ![call[p].tmpName] = IF fails THEN RawEmpty ELSE call[p].content]
    /\ pc' = [pc EXCEPT ![p] = IF fails THEN "fallback" ELSE "rename"]
    /\ call' = [call EXCEPT ![p].fallback = fails]
    /\ lastGet' = NoGet
    /\ UNCHANGED <<files, setsLeft, crashed, filterVars, discVars, catVars, mutVars>>

\* a rename carried out as truncate-then-copy
RenameByCopy(p, fails) ==
    /\ ~crashed
    /\ pc[p] = "rename"
    /\ files' = [files EXCEPT ![call[p].scope] = RawEmpty]
    /\ pc' = [pc EXCEPT ![p] = "cleanup"]
    /\ lastGet' = NoGet
    /\ UNCHANGED <<tmp, call, setsLeft, crashed, filterVars, discVars, catVars, mutVars>>

\* await rename(tmpPath, path) (line 201): the commit point; it fails when
\* the tmp file is gone and may fail for reasons of the file system
Rename(p, fails) ==
    /\ ~crashed
    /\ pc[p] = "rename"
    /\ LET name == call[p].tmpName
           failed == fails \/ tmp[name].kind = "missing"
       IN  IF failed
           THEN /\ pc' = [pc EXCEPT ![p] = "fallback"]
                /\ call' = [call EXCEPT ![p].fallback = TRUE]
                /\ UNCHANGED <<files, tmp>>
           ELSE /\ files' = [files EXCEPT ![call[p].scope] = tmp[name]]
                /\ tmp' = [tmp EXCEPT ![name] = RawMissing]
                /\ pc' = [pc EXCEPT ![p] = "cleanup"]
                /\ UNCHANGED call
    /\ lastGet' = NoGet
    /\ UNCHANGED <<setsLeft, crashed, filterVars, discVars, catVars, mutVars>>

\* catch { await writeFile(path, content, "utf8") } (line 203), first half:
\* the settings file is opened for writing, which truncates it
FallbackOpen(p, fails) ==
    /\ ~crashed
    /\ pc[p] = "fallback"
    /\ IF fails
       THEN /\ call' = [call EXCEPT ![p].thrown = TRUE]
            /\ pc' = [pc EXCEPT ![p] = "cleanup"]
            /\ UNCHANGED files
       ELSE /\ files' = [files EXCEPT ![call[p].scope] = RawEmpty]
            /\ pc' = [pc EXCEPT ![p] = "fallbackwrite"]
            /\ UNCHANGED call
    /\ lastGet' = NoGet
    /\ UNCHANGED <<tmp, setsLeft, crashed, filterVars, discVars, catVars, mutVars>>

\* second half of the direct write: the content reaches the file
FallbackWrite(p) ==
    /\ ~crashed
    /\ pc[p] = "fallbackwrite"
    /\ files' = [files EXCEPT ![call[p].scope] = call[p].content]
    /\ pc' = [pc EXCEPT ![p] = "cleanup"]
    /\ lastGet' = NoGet
    /\ UNCHANGED <<tmp, call, setsLeft, crashed, filterVars, discVars, catVars, mutVars>>

\* finally { await rm(tmpPath, { force: true }) } (line 205), then the
\* return of lines 540-545
Cleanup(p) ==
    /\ ~crashed
    /\ pc[p] = "cleanup"
    /\ tmp' = [tmp EXCEPT ![call[p].tmpName] = RawMissing]
    /\ call' = [call EXCEPT ![p].result = IF call[p].thrown THEN "error" ELSE "ok",
                            ![p].error = IF call[p].thrown THEN "write error" ELSE "none"]
    /\ pc' = [pc EXCEPT ![p] = "done"]
    /\ lastGet' = NoGet
    /\ UNCHANGED <<files, setsLeft, crashed, filterVars, discVars, catVars, mutVars>>

\* the caller takes the result; the caller can call again
SetReturn(p) ==
    /\ ~crashed
    /\ pc[p] = "done"
    /\ pc' = [pc EXCEPT ![p] = "idle"]
    /\ call' = [call EXCEPT ![p] = IdleCall]
    /\ lastGet' = NoGet
    /\ UNCHANGED <<files, tmp, setsLeft, crashed, filterVars, discVars, catVars, mutVars>>

\* a call of getPackageExtensionState (lines 284-307)
Get(packageSource, extensionPath, scope) ==
    /\ ~crashed
    /\ \A p \in Procs : ~InFlight(p)
    /\ lastGet' = [valid |-> TRUE, source |-> packageSource, path |-> extensionPath,
                   scope |-> scope,
                   state |-> getPackageExtensionState(files[scope], packageSource, extensionPath)]
    /\ UNCHANGED <<files, tmp, pc, call, setsLeft, crashed, filterVars, discVars, catVars, mutVars>>

\* the process stops while a call is in flight
Crash ==
    /\ ~crashed
    /\ \E p \in Procs : InFlight(p)
    /\ crashed' = TRUE
    /\ UNCHANGED <<files, tmp, pc, call, lastGet, setsLeft, filterVars, discVars, catVars, mutVars>>

\* a call of the resolver on the drawn input
Resolve ==
    /\ fState = "none"
    /\ fState' = getPackageFilterState(fFilters, fPath)
    /\ UNCHANGED <<fFilters, fPath, globThrows, storeVars, discVars, catVars, mutVars>>

-----------------------------------------------------------------------------
(* Bounded polling (src/src/utils/retry.ts) *)

NoOptions == [maxAttempts |-> 0, delayMs |-> 0, backoff |-> "fixed"]

RetryOptions(maxAttempts, delayMs, backoff) ==
    [maxAttempts |-> maxAttempts, delayMs |-> delayMs, backoff |-> backoff]

RECURSIVE Pow2(_)
Pow2(n) == IF n = 0 THEN 1 ELSE 2 * Pow2(n - 1)

\* the delay waited after the failed attempt k
backoffDelay(options, k) ==
    IF options.backoff = "exponential" THEN options.delayMs * Pow2(k - 1)
    ELSE IF options.backoff = "linear" THEN options.delayMs * k
    ELSE options.delayMs

\* a slip: the loop runs one attempt too many
loopContinuesOneMore(options, k) == k <= options.maxAttempts + 1

\* the loop condition `attempt <= maxAttempts`
loopContinues(options, k) == k <= options.maxAttempts

\* waitForCondition starts retryWithBackoff with the caller's options
StartPolling(options) ==
    /\ pOptions' = options
    /\ attempt' = 1
    /\ evals' = 0
    /\ delays' = <<>>
    /\ pResult' = "running"

\* one pass of the loop of retryWithBackoff: the operation is awaited, a
\* defined result is returned, an undefined one is followed by the wait
RetryAttempt(value) ==
    /\ pResult = "running"
    /\ loopContinues(pOptions, attempt)
    /\ evals' = evals + 1
    /\ IF value
         THEN /\ pResult' = "true"
              /\ UNCHANGED <<attempt, delays>>
         ELSE /\ attempt' = attempt + 1
              /\ delays' = IF attempt < pOptions.maxAttempts
                             THEN Append(delays, backoffDelay(pOptions, attempt))
                             ELSE delays
              /\ UNCHANGED pResult
    /\ UNCHANGED pOptions

\* the loop of retryWithBackoff ends without a result
RetryExhausted ==
    /\ pResult = "running"
    /\ ~loopContinues(pOptions, attempt)
    /\ pResult' = "undefined"
    /\ UNCHANGED <<pOptions, attempt, evals, delays>>

\* what waitForCondition returns once retryWithBackoff has returned
waitForCondition == pResult = "true"

PollingOver == pResult \in {"true", "undefined"}

-----------------------------------------------------------------------------
(* Package identity and update classification                             *)
(* (src/src/packages/management.ts)                                        *)

\* "npm:"
W_npm == <<"n", "p", "m", ":">>
\* "git:"
W_git == <<"g", "i", "t", ":">>
\* "git@"
W_gitAt == <<"g", "i", "t", "@">>
\* "https://"
W_https == <<"h", "t", "t", "p", "s", ":", "/", "/">>
\* "name:"
W_name == <<"n", "a", "m", "e", ":">>
\* "src:"
W_src == <<"s", "r", "c", ":">>
\* "already"
W_already == <<"a", "l", "r", "e", "a", "d", "y">>
\* "up"
W_up == <<"u", "p">>
\* "to"
W_to == <<"t", "o">>
\* "date"
W_date == <<"d", "a", "t", "e">>
\* "pinned"
W_pinned == <<"p", "i", "n", "n", "e", "d">>
\* "dependency"
W_dependency == <<"d", "e", "p", "e", "n", "d", "e", "n", "c", "y">>

\* \s of a regular expression, over the characters of the model
RegexSpace == {" ", "\t", "\n"}

Digits == {"0", "1", "2", "3", "4", "5", "6", "7", "8", "9"}

\* \w of a regular expression
WordChars ==
    {UpperLetters[i] : i \in DOMAIN UpperLetters}
        \cup {LowerLetters[i] : i \in DOMAIN LowerLetters} \cup Digits \cup {"_"}

\* the positions a run of \s* can end at when it starts at position i
AfterSpaces(s, i) ==
    { j \in i..(Len(s) + 1) : \A k \in i..(j - 1) : s[k] \in RegexSpace }

\* the same for \s+
AfterSomeSpaces(s, i) == AfterSpaces(s, i) \ {i}

\* the literal `word` at position i, letters compared as the /i flag does
WordAt(s, i, word) ==
    /\ i >= 1
    /\ i + Len(word) - 1 <= Len(s)
    /\ \A k \in DOMAIN word : LowerChar(s[i + k - 1]) = word[k]

\* \b after a word character: the next position holds no word character
BoundaryAt(s, j) == j = Len(s) + 1 \/ s[j] \notin WordChars

\* ^ under the /m flag
LineStartAt(s, i) == i = 1 \/ s[i - 1] = "\n"

\* $ under the /m flag
LineEndAt(s, j) == j = Len(s) + 1 \/ s[j] = "\n"

\* /already\s+up\s+to\s+date/i
AlreadyUpToDate(stdout) ==
    \E i \in 1..Len(stdout) :
        /\ WordAt(stdout, i, W_already)
        /\ \E j \in AfterSomeSpaces(stdout, i + 7) :
              /\ WordAt(stdout, j, W_up)
              /\ \E k \in AfterSomeSpaces(stdout, j + 2) :
                    /\ WordAt(stdout, k, W_to)
                    /\ \E l \in AfterSomeSpaces(stdout, k + 2) :
                          WordAt(stdout, l, W_date)

\* /^\s*pinned\b(?!\s+dependency\b)(?:\s*$|\s*[:(-])/im
pinnedAsStatus(stdout) ==
    \E i \in 1..(Len(stdout) + 1) :
        /\ LineStartAt(stdout, i)
        /\ \E j \in AfterSpaces(stdout, i) :
              /\ WordAt(stdout, j, W_pinned)
              /\ BoundaryAt(stdout, j + 6)
              /\ ~ \E d \in AfterSomeSpaces(stdout, j + 6) :
                      /\ WordAt(stdout, d, W_dependency)
                      /\ BoundaryAt(stdout, d + 10)
              /\ \E t \in AfterSpaces(stdout, j + 6) :
                    \/ LineEndAt(stdout, t)
                    \/ t <= Len(stdout) /\ stdout[t] \in {":", "(", "-"}

\* a slip: the phrases are compared without the /i flag
isUpToDateOutputCaseSensitive(stdout) ==
    LowerCase(stdout) = stdout /\ (AlreadyUpToDate(stdout) \/ pinnedAsStatus(stdout))

isUpToDateOutput(stdout) == AlreadyUpToDate(stdout) \/ pinnedAsStatus(stdout)

\* stdout.trim() === ""
IsBlank(stdout) == \A i \in DOMAIN stdout : stdout[i] \in RegexSpace

\* the last position of character c in s, 0 when there is none
LastIndexOf(s, c) ==
    IF \E i \in DOMAIN s : s[i] = c
    THEN CHOOSE i \in DOMAIN s : s[i] = c /\ \A j \in (i + 1)..Len(s) : s[j] # c
    ELSE 0

NoName == <<>>
NotNpm == [ok |-> FALSE, name |-> NoName]

\* `In` applied to the value of `value`, which is computed once
Let(value, In(_)) == CHOOSE r \in { In(x) : x \in {value} } : TRUE

\* parseNpmSource: the package-manager name a source denotes, when one can
\* be derived: the decoration is dropped, then the "npm:" prefix, then the
\* "@version" suffix; a path, a URL or a source of another scheme has none
parseNpmSource(source) ==
    Let(normalizeSource(source), LAMBDA plain :
    Let(IF StartsWith(plain, W_npm) THEN Trim(Slice(plain, 4)) ELSE plain, LAMBDA spec :
    Let(LastIndexOf(spec, "@"), LAMBDA at :
    Let(IF at > 1 THEN SubSeq(spec, 1, at - 1) ELSE spec, LAMBDA name :
        IF spec = <<>> \/ name = <<>> THEN NotNpm
        ELSE IF ~StartsWith(plain, W_npm)
                /\ (\E i \in DOMAIN spec : spec[i] \in {":", "\\", " "}
                    \/ spec[1] \in {"/", ".", "~"})
        THEN NotNpm
        ELSE [ok |-> TRUE, name |-> name]))))

\* getPackageSourceKind
getPackageSourceKind(source) ==
    IF StartsWith(source, W_npm) THEN "npm"
    ELSE IF StartsWith(source, W_git) \/ StartsWith(source, W_gitAt)
            \/ StartsWith(source, W_https) THEN "git"
    ELSE IF source # <<>> /\ source[1] \in {"/", ".", "~"} THEN "local"
    ELSE "unknown"

\* splitGitRepoAndRef: the reference follows the last "@" behind the last "/"
splitGitRepoAndRef(gitSpec) ==
    LET at == LastIndexOf(gitSpec, "@")
        slash == LastIndexOf(gitSpec, "/")
    IN  IF at > slash /\ at > 1
        THEN [repo |-> SubSeq(gitSpec, 1, at - 1), ref |-> Slice(gitSpec, at)]
        ELSE [repo |-> gitSpec, ref |-> <<>>]

\* normalizeLocalSourceIdentity: separators unified, letter case kept
normalizeLocalSourceIdentity(source) == ReplaceBackslashes(Trim(source))

\* a slip: the recorded name is preferred to the local path
packageIdentityNameFirst(source, fallbackName) ==
    Let(parseNpmSource(source), LAMBDA npm :
    Let(getPackageSourceKind(source), LAMBDA sourceKind :
        IF npm.ok THEN W_npm \o npm.name
        ELSE IF sourceKind = "git"
        THEN W_git \o splitGitRepoAndRef(
                 IF StartsWith(source, W_git) THEN Slice(source, 4) ELSE source).repo
        ELSE IF fallbackName # NoName THEN W_name \o fallbackName
        ELSE IF sourceKind = "local" THEN W_src \o normalizeLocalSourceIdentity(source)
        ELSE W_src \o source))

\* a slip: the npm identity is the source string as recorded
packageIdentityRawNpm(source, fallbackName) ==
    Let(parseNpmSource(source), LAMBDA npm :
    Let(getPackageSourceKind(source), LAMBDA sourceKind :
        IF npm.ok THEN W_src \o source
        ELSE IF sourceKind = "git"
        THEN W_git \o splitGitRepoAndRef(
                 IF StartsWith(source, W_git) THEN Slice(source, 4) ELSE source).repo
        ELSE IF sourceKind = "local" THEN W_src \o normalizeLocalSourceIdentity(source)
        ELSE IF fallbackName # NoName THEN W_name \o fallbackName
        ELSE W_src \o source))

packageIdentity(source, fallbackName) ==
    Let(parseNpmSource(source), LAMBDA npm :
    Let(getPackageSourceKind(source), LAMBDA sourceKind :
        IF npm.ok THEN W_npm \o npm.name
        ELSE IF sourceKind = "git"
        THEN W_git \o splitGitRepoAndRef(
                 IF StartsWith(source, W_git) THEN Slice(source, 4) ELSE source).repo
        ELSE IF sourceKind = "local" THEN W_src \o normalizeLocalSourceIdentity(source)
        ELSE IF fallbackName # NoName THEN W_name \o fallbackName
        ELSE W_src \o source))

-----------------------------------------------------------------------------
(* The mutation coordinator: install, update, remove                       *)
(* (src/src/packages/install.ts, src/src/packages/management.ts)           *)

NoOp ==
    [kind |-> "none", source |-> <<>>, normalized |-> <<>>, scope |-> "none",
     hasUI |-> FALSE, identity |-> <<>>, knownBefore |-> <<>>,
     code |-> 0, stdout |-> <<>>, choice |-> "none", answer |-> "none",
     installed |-> <<>>, matching |-> <<>>]

\* one pi.exec("pi", args) call; scope is "project" when "-l" is passed
ExecCall(command, scope, source) ==
    [command |-> command, scope |-> scope, source |-> source]

ListCall == ExecCall("list", "global", <<>>)

\* the entry logPackageInstall / logPackageUpdate / logPackageRemove appends
HistoryEntry(action, source, success) ==
    [action |-> action, source |-> source, success |-> success]

\* clearUpdatesAvailable leaves no known update
clearUpdatesAvailable == <<>>

\* normalizePackageSource: a source with a scheme or a path is kept, a git
\* address gets the "git:" prefix, a bare name the "npm:" prefix
normalizePackageSource(source) ==
    LET t == Trim(source)
    IN  IF StartsWith(t, W_npm) \/ StartsWith(t, W_git) THEN t
        ELSE IF getPackageSourceKind(t) = "git" THEN W_git \o t
        ELSE IF getPackageSourceKind(t) = "local" THEN t
        ELSE W_npm \o t

\* isSourceInstalled(source, ctx, pi, {scope}): the listing of that scope
\* names the source
isSourceInstalled(installed, source, scope) ==
    \E i \in DOMAIN installed :
        installed[i].scope = scope /\ installed[i].source = source

\* the name `pi list` shows for a source
recordName(source) ==
    LET npm == parseNpmSource(source)
    IN  IF npm.ok THEN npm.name ELSE source

\* what a successful `pi install` makes visible
withInstalled(installed, source, scope) ==
    IF isSourceInstalled(installed, source, scope) THEN installed
    ELSE Append(installed, InstalledPackage(source, recordName(source), scope, "none"))

\* what a successful `pi remove` makes visible
RECURSIVE withoutInstalled(_, _, _)
withoutInstalled(installed, source, scope) ==
    IF installed = <<>> THEN <<>>
    ELSE LET p == Head(installed)
             rest == withoutInstalled(Tail(installed), source, scope)
         IN  IF p.scope = scope /\ p.source = source THEN rest ELSE <<p>> \o rest

\* the answers of ctx.ui.select; "dismissed" is the undefined of a closed prompt
InstallScopeLabels == {"Global", "Project", "Cancel", "dismissed"}

resolveInstallScope(hasUI, explicitScope, choice) ==
    IF explicitScope # "none" THEN explicitScope
    ELSE IF ~hasUI THEN "global"
    ELSE IF choice \in {"dismissed", "Cancel"} THEN "none"
    ELSE IF choice = "Project" THEN "project"
    ELSE "global"

confirmAction(hasUI, answer) == IF ~hasUI THEN TRUE ELSE answer

InstallPollOptions == RetryOptions(10, 100, "exponential")

RemovePollOptions == RetryOptions(10, 100, "exponential")

RemovalScopeLabels == {"Both", "Global", "Project", "Cancel", "dismissed"}

scopeChoiceFromLabel(choice) ==
    IF choice \in {"dismissed", "Cancel"} THEN "cancel"
    ELSE IF choice = "Both" THEN "both"
    ELSE IF choice = "Global" THEN "global"
    ELSE IF choice = "Project" THEN "project"
    ELSE "cancel"

\* a slip: a closed prompt counts as "both"
selectRemovalScopeDefaultBoth(hasUI, choice) ==
    IF ~hasUI THEN "global"
    ELSE IF choice = "dismissed" THEN "both"
    ELSE scopeChoiceFromLabel(choice)

\* a slip: without a UI both scopes are chosen
selectRemovalScopeNoUIBoth(hasUI, choice) ==
    IF ~hasUI THEN "both" ELSE scopeChoiceFromLabel(choice)

selectRemovalScope(hasUI, choice) ==
    IF ~hasUI THEN "global" ELSE scopeChoiceFromLabel(choice)

RemovalTarget(scope, source, name) ==
    [scope |-> scope, source |-> source, name |-> name]

\* new Map(matching.map(...)).get(scope): the last record of the scope
LastOfScope(matching, scope) ==
    LET at == { i \in DOMAIN matching : matching[i].scope = scope }
    IN  IF at = {} THEN <<>>
        ELSE LET p == matching[CHOOSE i \in at : \A j \in at : j <= i]
             IN  <<RemovalTarget(scope, p.source, p.name)>>

buildRemovalTargets(matching, source, hasUI, scopeChoice) ==
    LET hasGlobal == \E i \in DOMAIN matching : matching[i].scope = "global"
        hasProject == \E i \in DOMAIN matching : matching[i].scope = "project"
        allTargets ==
            [i \in DOMAIN matching |->
                RemovalTarget(matching[i].scope, matching[i].source, matching[i].name)]
    IN  IF matching = <<>> THEN <<RemovalTarget("global", source, source)>>
        ELSE IF hasGlobal /\ hasProject
        THEN IF scopeChoice = "both"
             THEN LastOfScope(matching, "global") \o LastOfScope(matching, "project")
             ELSE IF scopeChoice = "global" THEN LastOfScope(matching, "global")
             ELSE IF scopeChoice = "project" THEN LastOfScope(matching, "project")
             ELSE <<>>
        ELSE IF hasUI THEN allTargets ELSE SubSeq(allTargets, 1, 1)

RemovalExecutionResult(target, success) == [target |-> target, success |-> success]

\* installed.filter((p) => packageIdentity(p.source, p.name) === identity)
RECURSIVE matchingIdentity(_, _)
matchingIdentity(installed, identity) ==
    IF installed = <<>> THEN <<>>
    ELSE LET p == Head(installed)
             rest == matchingIdentity(Tail(installed), identity)
         IN  IF packageIdentity(p.source, p.name) = identity THEN <<p>> \o rest ELSE rest

\* installed.find((p) => p.source === source)?.name
directName(installed, source) ==
    LET at == { i \in DOMAIN installed : installed[i].source = source }
    IN  IF at = {} THEN NoName
        ELSE installed[CHOOSE i \in at : \A j \in at : i <= j].name

RECURSIVE failuresOf(_)
failuresOf(res) ==
    IF res = <<>> THEN <<>>
    ELSE IF Head(res).success THEN failuresOf(Tail(res))
    ELSE <<Head(res)>> \o failuresOf(Tail(res))

RECURSIVE successfulTargets(_)
successfulTargets(res) ==
    IF res = <<>> THEN <<>>
    ELSE IF Head(res).success THEN <<Head(res).target>> \o successfulTargets(Tail(res))
    ELSE successfulTargets(Tail(res))

\* the notifications of notifyRemovalSummary
notifyRemovalSummary(remaining, failures) ==
    (IF failures # <<>> THEN <<"remove-failed">> ELSE <<>>)
        \o (IF remaining # <<>> THEN <<"still-installed">>
            ELSE IF failures = <<>> THEN <<"removed">>
            ELSE <<>>)

\* installPackage up to its `await pi.exec("pi", ["install", ...])`; the
\* sources of the model are no links to a single .ts file
InstallBegin(source, explicitScope, hasUI, choice, answer) ==
    LET scope == resolveInstallScope(hasUI, explicitScope, choice)
        normalized == normalizePackageSource(source)
        op == [NoOp EXCEPT !.kind = "install", !.source = source,
                           !.normalized = normalized, !.scope = scope,
                           !.hasUI = hasUI, !.knownBefore = knownUpdates]
    IN  /\ mpc = "idle"
        /\ mOp' = op
        /\ IF scope = "none" \/ ~confirmAction(hasUI, answer)
             THEN /\ notes' = Append(notes, "install-cancelled")
                  /\ mpc' = "done"
                  /\ UNCHANGED execCalls
             ELSE /\ notes' = Append(notes, "progress")
                  /\ execCalls' = Append(execCalls, ExecCall("install", scope, normalized))
                  /\ mpc' = "install-exec"
        /\ UNCHANGED <<pollVars, targets, results, reloaded, history, reloadRequests,
                       envVars, filterVars, storeVars, discVars, catVars, laterVars>>

\* a slip: a failed install is followed by the visibility polling all the same
InstallExitKeepsGoing(code) ==
    /\ mpc = "install-exec"
    /\ mOp' = [mOp EXCEPT !.code = code]
    /\ history' = Append(history, HistoryEntry("install", mOp.normalized, code = 0))
    /\ notes' = notes \o (IF code = 0 THEN <<"installed">> ELSE <<"install-failed">>)
                      \o <<"waiting">>
    /\ knownUpdates' = clearUpdatesAvailable
    /\ settled' = IF code = 0 THEN withInstalled(settled, mOp.normalized, mOp.scope)
                  ELSE settled
    /\ StartPolling(InstallPollOptions)
    /\ mpc' = "install-poll"
    /\ UNCHANGED <<targets, results, reloaded, execCalls, reloadRequests, listing,
                   filterVars, storeVars, discVars, catVars, laterVars>>

\* a slip: a failed install command is issued a second time
InstallExitRetries(code) ==
    /\ mpc = "install-exec"
    /\ mOp' = [mOp EXCEPT !.code = code]
    /\ IF code # 0 /\ Len(execCalls) < 2
         THEN /\ execCalls' = Append(execCalls, ExecCall("install", mOp.scope, mOp.normalized))
              /\ UNCHANGED <<pollVars, settled, knownUpdates, history, notes, mpc>>
         ELSE IF code # 0
         THEN /\ history' = Append(history, HistoryEntry("install", mOp.normalized, FALSE))
              /\ notes' = Append(notes, "install-failed")
              /\ mpc' = "done"
              /\ UNCHANGED <<pollVars, settled, knownUpdates, execCalls>>
         ELSE /\ history' = Append(history, HistoryEntry("install", mOp.normalized, TRUE))
              /\ notes' = notes \o <<"installed", "waiting">>
              /\ knownUpdates' = clearUpdatesAvailable
              /\ settled' = withInstalled(settled, mOp.normalized, mOp.scope)
              /\ StartPolling(InstallPollOptions)
              /\ mpc' = "install-poll"
              /\ UNCHANGED execCalls
    /\ UNCHANGED <<targets, results, reloaded, reloadRequests, listing,
                   filterVars, storeVars, discVars, catVars, laterVars>>

\* installPackage from the exit of the install command to the polling
InstallExit(code) ==
    /\ mpc = "install-exec"
    /\ mOp' = [mOp EXCEPT !.code = code]
    /\ IF code # 0
         THEN /\ history' = Append(history, HistoryEntry("install", mOp.normalized, FALSE))
              /\ notes' = Append(notes, "install-failed")
              /\ mpc' = "done"
              /\ UNCHANGED <<pollVars, settled, knownUpdates>>
         ELSE /\ history' = Append(history, HistoryEntry("install", mOp.normalized, TRUE))
              /\ notes' = notes \o <<"installed", "waiting">>
              /\ knownUpdates' = clearUpdatesAvailable
              /\ settled' = withInstalled(settled, mOp.normalized, mOp.scope)
              /\ StartPolling(InstallPollOptions)
              /\ mpc' = "install-poll"
    /\ UNCHANGED <<targets, results, reloaded, execCalls, reloadRequests, listing,
                   filterVars, storeVars, discVars, catVars, laterVars>>

\* the condition the running waitForCondition polls, as the listing answers
\* it now; a bare waitForCondition call is given any answer
ConditionValues ==
    IF mpc = "install-poll"
    THEN {isSourceInstalled(listing, mOp.normalized, mOp.scope)}
    ELSE IF mpc = "remove-poll"
    THEN {\A i \in DOMAIN successfulTargets(results) :
              ~isSourceInstalled(listing, successfulTargets(results)[i].source,
                                 successfulTargets(results)[i].scope)}
    ELSE BOOLEAN

\* the `pi list` calls one evaluation of the condition issues
ConditionCalls ==
    IF mpc = "install-poll" THEN <<ListCall>>
    ELSE IF mpc = "remove-poll"
    THEN [i \in DOMAIN successfulTargets(results) |-> ListCall]
    ELSE <<>>

\* one attempt of the visibility polling
Poll ==
    /\ mpc \in {"install-poll", "remove-poll", "retry"}
    /\ \E value \in ConditionValues : RetryAttempt(value)
    /\ execCalls' = execCalls \o ConditionCalls
    /\ UNCHANGED <<flowVars, history, notes, reloadRequests, envVars,
                   filterVars, storeVars, discVars, catVars, laterVars>>

\* the polling runs out of attempts
PollEnd ==
    /\ mpc \in {"install-poll", "remove-poll", "retry"}
    /\ RetryExhausted
    /\ UNCHANGED <<flowVars, logVars, envVars,
                   filterVars, storeVars, discVars, catVars, laterVars>>

\* a slip: a polling timeout undoes the installation
InstallAfterPollRollsBack ==
    /\ mpc = "install-poll"
    /\ PollingOver
    /\ IF waitForCondition
         THEN /\ mpc' = "reload"
              /\ UNCHANGED <<notes, execCalls>>
         ELSE /\ notes' = Append(notes, "install-not-visible")
              /\ execCalls' = Append(execCalls, ExecCall("remove", mOp.scope, mOp.normalized))
              /\ mpc' = "done"
    /\ UNCHANGED <<pollVars, mOp, targets, results, reloaded, history,
                   reloadRequests, envVars, filterVars, storeVars, discVars, catVars, laterVars>>

\* installPackage after waitForCondition has returned
InstallAfterPoll ==
    /\ mpc = "install-poll"
    /\ PollingOver
    /\ notes' = IF waitForCondition THEN notes ELSE Append(notes, "install-not-visible")
    /\ mpc' = "reload"
    /\ UNCHANGED <<pollVars, mOp, targets, results, reloaded, execCalls, history,
                   reloadRequests, envVars, filterVars, storeVars, discVars, catVars, laterVars>>

\* confirmReload, and the return of the action that called it
ConfirmReload(answer) ==
    /\ mpc = "reload"
    /\ reloadRequests' = reloadRequests + 1
    /\ IF ~mOp.hasUI
         THEN /\ notes' = Append(notes, "reload-hint")
              /\ reloaded' = FALSE
         ELSE /\ reloaded' = answer
              /\ UNCHANGED notes
    /\ mpc' = "done"
    /\ UNCHANGED <<pollVars, mOp, targets, results, execCalls, history, envVars,
                   filterVars, storeVars, discVars, catVars, laterVars>>

\* updatePackageInternal / updatePackagesInternal up to the `await pi.exec`;
\* the bulk update passes no source
UpdateBegin(kind, source, hasUI) ==
    /\ mpc = "idle"
    /\ mOp' = [NoOp EXCEPT !.kind = kind, !.source = source, !.normalized = source,
                           !.hasUI = hasUI, !.knownBefore = knownUpdates]
    /\ notes' = Append(notes, "progress")
    /\ execCalls' = Append(execCalls, ExecCall("update", "global", source))
    /\ mpc' = "update-exec"
    /\ UNCHANGED <<pollVars, targets, results, reloaded, history, reloadRequests,
                   envVars, filterVars, storeVars, discVars, catVars, laterVars>>

\* the no-op test of the two update functions
isNoOpUpdate(kind, stdout) ==
    isUpToDateOutput(stdout) \/ (kind = "updateAll" /\ IsBlank(stdout))

\* updatePackageInternal / updatePackagesInternal from the exit of the
\* update command on
UpdateExit(code, stdout) ==
    /\ mpc = "update-exec"
    /\ mOp' = [mOp EXCEPT !.code = code, !.stdout = stdout]
    /\ IF code # 0
         THEN /\ history' = Append(history, HistoryEntry("update", mOp.source, FALSE))
              /\ notes' = Append(notes, "update-failed")
              /\ mpc' = "done"
              /\ UNCHANGED knownUpdates
         ELSE IF isNoOpUpdate(mOp.kind, stdout)
         THEN /\ notes' = Append(notes, "up-to-date")
              /\ history' = Append(history, HistoryEntry("update", mOp.source, TRUE))
              /\ knownUpdates' = clearUpdatesAvailable
              /\ mpc' = "done"
         ELSE /\ history' = Append(history, HistoryEntry("update", mOp.source, TRUE))
              /\ notes' = Append(notes, "updated")
              /\ knownUpdates' = clearUpdatesAvailable
              /\ mpc' = "reload"
    /\ UNCHANGED <<pollVars, targets, results, reloaded, execCalls, reloadRequests,
                   listing, settled, filterVars, storeVars, discVars, catVars, laterVars>>

\* removePackageInternal up to executeRemovalTargets; listOk is FALSE when
\* `pi list` exits non-zero; mOp keeps what the user answered to the prompts
\* that were shown
RemoveBegin(source, hasUI, listOk, choice, answer) ==
    LET installed == IF listOk THEN listing ELSE <<>>
        identity == packageIdentity(source, directName(installed, source))
        matching == matchingIdentity(installed, identity)
        hasBothScopes ==
            /\ \E i \in DOMAIN matching : matching[i].scope = "global"
            /\ \E i \in DOMAIN matching : matching[i].scope = "project"
        scopeChoice == IF hasBothScopes THEN selectRemovalScope(hasUI, choice) ELSE "both"
        built == buildRemovalTargets(matching, source, hasUI, scopeChoice)
    IN  /\ mpc = "idle"
        /\ mOp' = [NoOp EXCEPT !.kind = "remove", !.source = source,
                               !.normalized = source, !.hasUI = hasUI,
                               !.identity = identity, !.knownBefore = knownUpdates,
                               !.installed = installed, !.matching = matching,
                               !.choice = IF hasBothScopes /\ hasUI THEN choice ELSE "none",
                               !.answer = IF hasUI /\ scopeChoice # "cancel" /\ built # <<>>
                                            THEN (IF answer THEN "yes" ELSE "no")
                                            ELSE "none"]
        /\ execCalls' = Append(execCalls, ListCall)
        /\ IF scopeChoice = "cancel"
             THEN /\ notes' = Append(notes, "removal-cancelled")
                  /\ mpc' = "done"
                  /\ UNCHANGED targets
             ELSE IF built = <<>>
             THEN /\ notes' = Append(notes, "nothing-to-remove")
                  /\ mpc' = "done"
                  /\ UNCHANGED targets
             ELSE IF ~confirmAction(hasUI, answer)
             THEN /\ notes' = Append(notes, "removal-cancelled")
                  /\ mpc' = "done"
                  /\ UNCHANGED targets
             ELSE /\ targets' = built
                  /\ mpc' = "remove-exec"
                  /\ UNCHANGED notes
        /\ UNCHANGED <<pollVars, results, reloaded, history, reloadRequests,
                       envVars, filterVars, storeVars, discVars, catVars, laterVars>>

\* a slip: the loop of executeRemovalTargets stops at the first failure
RemoveTargetStopsAtFailure(code) ==
    LET target == targets[Len(results) + 1]
    IN  /\ mpc = "remove-exec"
        /\ Len(results) < Len(targets)
        /\ notes' = Append(notes, "progress")
        /\ execCalls' = Append(execCalls, ExecCall("remove", target.scope, target.source))
        /\ history' = Append(history, HistoryEntry("remove", target.source, code = 0))
        /\ results' = Append(results, RemovalExecutionResult(target, code = 0))
        /\ targets' = IF code = 0 THEN targets ELSE SubSeq(targets, 1, Len(results) + 1)
        /\ settled' = IF code = 0
                        THEN withoutInstalled(settled, target.source, target.scope)
                        ELSE settled
        /\ UNCHANGED <<pollVars, mpc, mOp, reloaded, reloadRequests,
                       listing, knownUpdates, filterVars, storeVars, discVars, catVars, laterVars>>

\* one pass of the loop of executeRemovalTargets
RemoveTarget(code) ==
    LET target == targets[Len(results) + 1]
    IN  /\ mpc = "remove-exec"
        /\ Len(results) < Len(targets)
        /\ notes' = Append(notes, "progress")
        /\ execCalls' = Append(execCalls, ExecCall("remove", target.scope, target.source))
        /\ history' = Append(history, HistoryEntry("remove", target.source, code = 0))
        /\ results' = Append(results, RemovalExecutionResult(target, code = 0))
        /\ settled' = IF code = 0
                        THEN withoutInstalled(settled, target.source, target.scope)
                        ELSE settled
        /\ UNCHANGED <<pollVars, mpc, mOp, targets, reloaded, reloadRequests,
                       listing, knownUpdates, filterVars, storeVars, discVars, catVars, laterVars>>

\* a slip: the polling and the reload follow every executed removal
RemoveSummaryAlwaysReloads(listOk) ==
    LET failures == failuresOf(results)
        remaining == matchingIdentity(IF listOk THEN listing ELSE <<>>, mOp.identity)
    IN  /\ mpc = "remove-exec"
        /\ Len(results) = Len(targets)
        /\ execCalls' = Append(execCalls, ListCall)
        /\ knownUpdates' = IF failures = <<>> THEN clearUpdatesAvailable ELSE knownUpdates
        /\ notes' = notes \o notifyRemovalSummary(remaining, failures) \o <<"waiting-removal">>
        /\ StartPolling(RemovePollOptions)
        /\ mpc' = "remove-poll"
        /\ UNCHANGED reloaded
        /\ UNCHANGED <<mOp, targets, results, history, reloadRequests, listing, settled,
                       filterVars, storeVars, discVars, catVars, laterVars>>

\* removePackageInternal from the return of executeRemovalTargets to the
\* polling
RemoveSummary(listOk) ==
    LET failures == failuresOf(results)
        remaining == matchingIdentity(IF listOk THEN listing ELSE <<>>, mOp.identity)
    IN  /\ mpc = "remove-exec"
        /\ Len(results) = Len(targets)
        /\ execCalls' = Append(execCalls, ListCall)
        /\ knownUpdates' = IF failures = <<>> THEN clearUpdatesAvailable ELSE knownUpdates
        /\ IF successfulTargets(results) # <<>>
             THEN /\ notes' = notes \o notifyRemovalSummary(remaining, failures)
                                    \o <<"waiting-removal">>
                  /\ StartPolling(RemovePollOptions)
                  /\ mpc' = "remove-poll"
                  /\ UNCHANGED reloaded
             ELSE /\ notes' = notes \o notifyRemovalSummary(remaining, failures)
                  /\ reloaded' = FALSE
                  /\ mpc' = "done"
                  /\ UNCHANGED pollVars
        /\ UNCHANGED <<mOp, targets, results, history, reloadRequests, listing, settled,
                       filterVars, storeVars, discVars, catVars, laterVars>>

\* removePackageInternal after waitForCondition has returned
RemoveAfterPoll ==
    /\ mpc = "remove-poll"
    /\ PollingOver
    /\ notes' = IF waitForCondition THEN notes ELSE Append(notes, "remove-not-visible")
    /\ mpc' = "reload"
    /\ UNCHANGED <<pollVars, mOp, targets, results, reloaded, execCalls, history,
                   reloadRequests, envVars, filterVars, storeVars, discVars, catVars, laterVars>>

\* the change of an install or a removal becomes visible in `pi list`
Flush ==
    /\ listing # settled
    /\ listing' = settled
    /\ UNCHANGED <<pollVars, flowVars, logVars, settled, knownUpdates,
                   filterVars, storeVars, discVars, catVars, laterVars>>

-----------------------------------------------------------------------------
(* The root of an npm package without a resolvedPath                       *)
(* (src/src/packages/extensions.ts, resolveNpmPackageRoot)                 *)

\* the directories a package can be found in:
\*   "project-pi"   join(cwd, ".pi", "npm", "node_modules", name)
\*   "project-nm"   join(cwd, "node_modules", name)
\*   "npm-root"     join(<output of `npm root -g`>, name)
\*   "global-pi"    join(packageDir, "npm", "node_modules", name)
Places == {"project-pi", "project-nm", "npm-root", "global-pi"}

Candidate(place, packageName) == [place |-> place, name |-> packageName]

Undefined == [place |-> "undefined", name |-> <<>>]

\* the loop of lines 91-95: the first candidate with a package.json
RECURSIVE firstWithManifest(_, _)
firstWithManifest(candidates, manifests) ==
    IF candidates = <<>> THEN Undefined
    ELSE IF Head(candidates).place \in manifests THEN Head(candidates)
    ELSE firstWithManifest(Tail(candidates), manifests)

\* a slip: the project-local candidates come first for every scope
resolveNpmPackageRootProjectFirst(pkg, npmGlobalRoot, manifests) ==
    Let(parseNpmSource(pkg.source), LAMBDA parsed :
        IF ~parsed.ok \/ parsed.name = <<>> THEN Undefined
        ELSE firstWithManifest(
                 <<Candidate("project-pi", parsed.name), Candidate("project-nm", parsed.name)>>
                 \o (IF pkg.scope = "project" THEN <<>>
                     ELSE (IF npmGlobalRoot THEN <<Candidate("npm-root", parsed.name)>>
                           ELSE <<>>)
                          \o <<Candidate("global-pi", parsed.name)>>),
                 manifests))

\* resolveNpmPackageRoot(pkg, cwd); npmGlobalRoot is TRUE when `npm root -g`
\* answered with a directory, manifests is the set of places whose
\* directory of that name holds a package.json
resolveNpmPackageRoot(pkg, npmGlobalRoot, manifests) ==
    Let(parseNpmSource(pkg.source), LAMBDA parsed :
        IF ~parsed.ok \/ parsed.name = <<>> THEN Undefined
        ELSE Let(<<Candidate("project-pi", parsed.name),
                   Candidate("project-nm", parsed.name)>>, LAMBDA projectCandidates :
             Let((IF npmGlobalRoot THEN <<Candidate("npm-root", parsed.name)>> ELSE <<>>)
                 \o <<Candidate("global-pi", parsed.name)>>, LAMBDA globalCandidates :
                 firstWithManifest(
                     IF pkg.scope = "project" THEN projectCandidates
                     ELSE globalCandidates \o projectCandidates,
                     manifests))))

NoLookup ==
    [pkg |-> InstalledPackage(<<>>, <<>>, "global", "none"), npmGlobalRoot |-> FALSE,
     manifests |-> {}, done |-> FALSE, root |-> Undefined]

\* toPackageRoot for a source that starts with "npm:" and has no resolvedPath
ResolveRoot ==
    /\ ~rootLookup.done
    /\ rootLookup.pkg.resolvedPath = "none"
    /\ StartsWith(rootLookup.pkg.source, W_npm)
    /\ rootLookup' =
          [rootLookup EXCEPT !.done = TRUE,
                             !.root = resolveNpmPackageRoot(rootLookup.pkg,
                                                            rootLookup.npmGlobalRoot,
                                                            rootLookup.manifests)]
    /\ UNCHANGED <<filterVars, storeVars, discVars, catVars,
                   coordVars, exceptRoot>>

-----------------------------------------------------------------------------
(* Saving the staged changes of the package configuration panel            *)
(* (src/unnamed/part_007, applyPackageExtensionChanges)                    *)

PackageConfigRow(id, extensionPath, originalState, available) ==
    [id |-> id, extensionPath |-> extensionPath, originalState |-> originalState,
     available |-> available]

\* [...rows].sort((a, b) => a.extensionPath.localeCompare(b.extensionPath)):
\* a stable sort
RECURSIVE InsertRow(_, _)
InsertRow(sorted, row) ==
    IF sorted = <<>> THEN <<row>>
    ELSE IF localeCompare(row.extensionPath, Head(sorted).extensionPath) < 0
    THEN <<row>> \o sorted
    ELSE <<Head(sorted)>> \o InsertRow(Tail(sorted), row)

RECURSIVE sortRows(_)
sortRows(rows) ==
    IF rows = <<>> THEN <<>>
    ELSE InsertRow(sortRows(SubSeq(rows, 1, Len(rows) - 1)), rows[Len(rows)])

\* staged.get(row.id) ?? row.originalState
stagedTarget(staged, row) ==
    IF staged[row.id] = "none" THEN row.originalState ELSE staged[row.id]

\* setPackageExtensionState run to its end with no other writer: the
\* outcome and the content of the settings file after it; writeOk is FALSE
\* when writeSettingsFile raises
setPackageExtensionState(raw, packageSource, extensionPath, target, writeOk) ==
    Let(readSettingsFile(raw, TRUE), LAMBDA read :
        IF ~read.ok THEN [ok |-> FALSE, error |-> read.error, raw |-> raw]
        ELSE Let(mutateSettings(read.settings, packageSource, extensionPath, target),
                 LAMBDA mutated :
                 IF ~mutated.ok THEN [ok |-> FALSE, error |-> mutated.error, raw |-> raw]
                 ELSE IF ~writeOk THEN [ok |-> FALSE, error |-> "write error", raw |-> raw]
                 ELSE [ok |-> TRUE, error |-> "none",
                       raw |-> JSONstringify(mutated.settings)]))

\* the record logExtensionToggle is called with
ToggleLog(id, from, to, success) == [id |-> id, from |-> from, to |-> to, success |-> success]

NoApply ==
    [rows |-> <<>>, staged |-> <<>>, pkg |-> InstalledPackage(<<>>, <<>>, "global", "none"),
     sortedRows |-> <<>>, next |-> 0, changed |-> 0, errors |-> <<>>,
     log |-> <<>>, setCalls |-> <<>>, written |-> <<>>, returned |-> FALSE]

\* one pass of the loop of applyPackageExtensionChanges (lines 240-266)
ApplyRow(writeOk) ==
    /\ applyCall.next >= 1
    /\ applyCall.next <= Len(applyCall.sortedRows)
    /\ \E row \in {applyCall.sortedRows[applyCall.next]} :
       \E target \in {stagedTarget(applyCall.staged, row)} :
          IF target = row.originalState
          THEN /\ applyCall' = [applyCall EXCEPT !.next = @ + 1]
               /\ UNCHANGED files
          ELSE IF ~row.available
          THEN /\ applyCall' = [applyCall EXCEPT
                                  !.next = @ + 1,
                                  !.errors = Append(@, row.id),
                                  !.log = Append(@, ToggleLog(row.id, row.originalState,
                                                              target, FALSE))]
               /\ UNCHANGED files
          ELSE \E result \in {setPackageExtensionState(files[applyCall.pkg.scope],
                                                       applyCall.pkg.source,
                                                       row.extensionPath, target, writeOk)} :
                 /\ files' = [files EXCEPT ![applyCall.pkg.scope] = result.raw]
                 /\ applyCall' = [applyCall EXCEPT
                                    !.next = @ + 1,
                                    !.setCalls = Append(@, row.id),
                                    !.changed = IF result.ok THEN @ + 1 ELSE @,
                                    !.written = IF result.ok THEN Append(@, row.id) ELSE @,
                                    !.errors = IF result.ok THEN @ ELSE Append(@, row.id),
                                    !.log = Append(@, ToggleLog(row.id, row.originalState,
                                                                target, result.ok))]
    /\ UNCHANGED <<tmp, pc, call, lastGet, setsLeft, crashed,
                   filterVars, discVars, catVars, coordVars, exceptApply>>

\* return { changed, errors } (line 268)
ApplyReturn ==
    /\ applyCall.next > Len(applyCall.sortedRows)
    /\ ~applyCall.returned
    /\ applyCall' = [applyCall EXCEPT !.returned = TRUE]
    /\ UNCHANGED <<storeVars, filterVars, discVars, catVars, coordVars, exceptApply>>

-----------------------------------------------------------------------------
(* The auto-update timer (src/src/utils/auto-update.ts, src/src/index.ts)  *)

\* most setInterval calls of one run
MaxTimers == 4

AutoUpdateConfig(enabled, intervalMs) == [enabled |-> enabled, intervalMs |-> intervalMs]

\* the configuration disableAutoUpdate saves (lines 188-192)
AutoUpdateOff == AutoUpdateConfig(FALSE, 0)

\* getScheduleInterval(config): the interval of the schedule
getScheduleInterval(config) == config.intervalMs

\* clearInterval(autoUpdateTimer) of lines 61-64
clearedTimers == IF autoUpdateTimer # 0 THEN liveTimers \ {autoUpdateTimer} ELSE liveTimers

\* a slip: the running timer is not stopped before the next one is started
startAutoUpdateTimerKeepsOld(config) ==
    IF ~config.enabled \/ config.intervalMs = 0 \/ getScheduleInterval(config) = 0
    THEN /\ autoUpdateTimer' = autoUpdateTimer
         /\ liveTimers' = liveTimers
         /\ UNCHANGED timersCreated
    ELSE /\ timersCreated' = timersCreated + 1
         /\ autoUpdateTimer' = timersCreated + 1
         /\ liveTimers' = liveTimers \cup {timersCreated + 1}

\* the body of startAutoUpdateTimer with the configuration it reads
\* (lines 32-48): stop, then setInterval when the schedule has an interval
startAutoUpdateTimer(config) ==
    IF ~config.enabled \/ config.intervalMs = 0 \/ getScheduleInterval(config) = 0
    THEN /\ autoUpdateTimer' = 0
         /\ liveTimers' = clearedTimers
         /\ UNCHANGED timersCreated
    ELSE /\ timersCreated' = timersCreated + 1
         /\ autoUpdateTimer' = timersCreated + 1
         /\ liveTimers' = clearedTimers \cup {timersCreated + 1}

TimerFrame ==
    UNCHANGED <<filterVars, storeVars, discVars, catVars, coordVars, exceptTimer>>

StartAutoUpdateTimer ==
    /\ timersCreated < MaxTimers
    /\ startAutoUpdateTimer(auConfig)
    /\ lastTimerCall' = "startAutoUpdateTimer"
    /\ UNCHANGED auConfig
    /\ TimerFrame

StopAutoUpdateTimer ==
    /\ autoUpdateTimer' = 0
    /\ liveTimers' = clearedTimers
    /\ lastTimerCall' = "stopAutoUpdateTimer"
    /\ UNCHANGED <<timersCreated, auConfig>>
    /\ TimerFrame

\* enableAutoUpdate saves the configuration, then starts the timer
EnableAutoUpdate(intervalMs) ==
    /\ timersCreated < MaxTimers
    /\ auConfig' = AutoUpdateConfig(TRUE, intervalMs)
    /\ startAutoUpdateTimer(AutoUpdateConfig(TRUE, intervalMs))
    /\ lastTimerCall' = "enableAutoUpdate"
    /\ TimerFrame

DisableAutoUpdate ==
    /\ autoUpdateTimer' = 0
    /\ liveTimers' = clearedTimers
    /\ auConfig' = AutoUpdateOff
    /\ lastTimerCall' = "disableAutoUpdate"
    /\ UNCHANGED timersCreated
    /\ TimerFrame

\* the session_start handler of index.ts (lines 64-72)
SessionStart(hasUI) ==
    /\ timersCreated < MaxTimers
    /\ IF hasUI
         THEN startAutoUpdateTimer(auConfig)
         ELSE UNCHANGED <<autoUpdateTimer, liveTimers, timersCreated>>
    /\ lastTimerCall' = IF hasUI THEN "session_start" ELSE "session_start-no-ui"
    /\ UNCHANGED auConfig
    /\ TimerFrame

\* the session_shutdown handler of index.ts (lines 74-76)
SessionShutdown ==
    /\ autoUpdateTimer' = 0
    /\ liveTimers' = clearedTimers
    /\ lastTimerCall' = "session_shutdown"
    /\ UNCHANGED <<timersCreated, auConfig>>
    /\ TimerFrame

isAutoUpdateRunning == autoUpdateTimer # 0

-----------------------------------------------------------------------------
(* The interactive manager (src/unnamed/part_007, src/src/ui/footer.ts)    *)

\* an empty Map
NoMap == [id \in {} |-> "none"]

\* Map.prototype.set
MapSet(map, key, value) ==
    [k \in DOMAIN map \cup {key} |-> IF k = key THEN value ELSE map[k]]

NoLeave == [choice |-> "none", count |-> 0, disk |-> NoMap]

PackageItemId == "pkg:npm:p"

\* buildUnifiedItems: one local item per discovered extension, its
\* originalState the state on disk; then the installed package
buildUnifiedItems(disk) ==
    [id \in DOMAIN disk \cup {PackageItemId} |->
        IF id = PackageItemId
        THEN [type |-> "package", originalState |-> "undefined"]
        ELSE [type |-> "local", originalState |-> disk[id]]]

getPendingToggleChangeCount(stagedMap, byId) ==
    Cardinality({ id \in DOMAIN stagedMap :
                    /\ id \in DOMAIN byId
                    /\ byId[id].type \in {"local", "package-extension"}
                    /\ byId[id].originalState # stagedMap[id] })

\* applyStagedChanges: the state on disk after the loop; a local item whose
\* staged state differs from its original state is written when the write
\* succeeds
applyStagedChanges(items, stagedMap, disk, writeOk) ==
    [id \in DOMAIN disk |->
        IF /\ id \in DOMAIN items
           /\ items[id].type = "local"
           /\ id \in DOMAIN stagedMap
           /\ stagedMap[id] # items[id].originalState
           /\ writeOk
        THEN stagedMap[id]
        ELSE disk[id]]

ManagerFrame ==
    UNCHANGED <<filterVars, storeVars, discVars, catVars, coordVars, exceptMgr>>

\* showInteractiveOnce up to the custom component: the items are loaded and
\* a new, empty staged Map is made (lines 441-471)
ShowInteractiveOnce ==
    /\ mgrPc \in {"closed", "loop"}
    /\ mItems' = buildUnifiedItems(diskState)
    /\ mStaged' = NoMap
    /\ mgrPc' = "list"
    /\ UNCHANGED <<diskState, pendingResult, lastLeave>>
    /\ ManagerFrame

\* the change callback of the settings list (lines 503-516)
OnToggle(id, newValue) ==
    /\ mgrPc = "list"
    /\ mStaged' = IF id \in DOMAIN mItems /\ mItems[id].type = "local"
                   THEN MapSet(mStaged, id, newValue)
                   ELSE mStaged
    /\ lastLeave' = NoLeave
    /\ UNCHANGED <<mgrPc, mItems, diskState, pendingResult>>
    /\ ManagerFrame

\* handleUnifiedAction up to the unsaved-changes prompt, for the results
\* cancel, remote and help (lines 974-1011, 844-845)
HandleUnifiedAction(result) ==
    /\ mgrPc = "list"
    /\ IF getPendingToggleChangeCount(mStaged, mItems) > 0
         THEN /\ mgrPc' = "prompt"
              /\ pendingResult' = result
         ELSE /\ mgrPc' = IF result = "cancel" THEN "exited" ELSE "loop"
              /\ pendingResult' = "none"
    /\ lastLeave' = NoLeave
    /\ UNCHANGED <<mItems, mStaged, diskState>>
    /\ ManagerFrame

\* the answer to the unsaved-changes prompt and the rest of
\* handleUnifiedAction (lines 976-994, 846-865)
AnswerUnsavedChanges(choice, writeOk) ==
    /\ mgrPc = "prompt"
    /\ lastLeave' = [choice |-> choice,
                     count |-> getPendingToggleChangeCount(mStaged, mItems),
                     disk |-> diskState]
    /\ pendingResult' = "none"
    /\ IF choice \in {"undefined", "Stay in manager"}
         THEN /\ mgrPc' = "loop"
              /\ UNCHANGED diskState
         ELSE /\ mgrPc' = IF pendingResult = "cancel" THEN "exited" ELSE "loop"
              /\ diskState' = IF choice = "Save"
                                THEN applyStagedChanges(mItems, mStaged, diskState, writeOk)
                                ELSE diskState
    /\ UNCHANGED <<mItems, mStaged>>
    /\ ManagerFrame

-----------------------------------------------------------------------------
(* Specifications *)

StoreInit(initFiles) ==
    /\ files \in initFiles
    /\ tmp = [n \in TmpNames |-> RawMissing]
    /\ pc = [p \in Procs |-> "idle"]
    /\ call = [p \in Procs |-> IdleCall]
    /\ lastGet = NoGet
    /\ setsLeft = MaxSets
    /\ crashed = FALSE

\* no resolver call of its own; no settings document of the model holds a
\* malformed pattern, so the glob library's choice has no effect
FilterIdle ==
    /\ fFilters = NoFilters
    /\ fPath = <<>>
    /\ fState = "none"
    /\ globThrows = FALSE

DiscIdle ==
    /\ dFiles = {}
    /\ dManifest = NoManifest
    /\ dRuns = <<>>
    /\ cPackages = <<>>
    /\ cCatalog = NoCatalog

\* no retryWithBackoff call is running
PollIdle ==
    /\ pOptions = NoOptions
    /\ attempt = 1
    /\ evals = 0
    /\ delays = <<>>
    /\ pResult = "idle"

\* no command is running
CmdIdle ==
    /\ argv = <<>>
    /\ raised = "none"

\* no package root is being looked up
RootIdle == rootLookup = NoLookup

\* no configuration change is being applied
ApplyIdle == applyCall = NoApply

\* the auto-update module as loaded: no timer, auto-update off
TimerIdle ==
    /\ autoUpdateTimer = 0
    /\ liveTimers = {}
    /\ timersCreated = 0
    /\ auConfig = AutoUpdateOff
    /\ lastTimerCall = "none"

\* the interactive manager is not open
MgrIdle ==
    /\ mgrPc = "closed"
    /\ mItems = NoMap
    /\ mStaged = NoMap
    /\ diskState = NoMap
    /\ pendingResult = "none"
    /\ lastLeave = NoLeave

\* nothing of the later sections is running
LaterIdle ==
    /\ CmdIdle
    /\ RootIdle
    /\ ApplyIdle
    /\ TimerIdle
    /\ MgrIdle

IdleExceptCmd ==
    /\ RootIdle
    /\ ApplyIdle
    /\ TimerIdle
    /\ MgrIdle

IdleExceptRoot ==
    /\ CmdIdle
    /\ ApplyIdle
    /\ TimerIdle
    /\ MgrIdle

IdleExceptApply ==
    /\ CmdIdle
    /\ RootIdle
    /\ TimerIdle
    /\ MgrIdle

IdleExceptTimer ==
    /\ CmdIdle
    /\ RootIdle
    /\ ApplyIdle
    /\ MgrIdle

IdleExceptMgr ==
    /\ CmdIdle
    /\ RootIdle
    /\ ApplyIdle
    /\ TimerIdle

\* no install, update or remove is requested
CoordIdle ==
    /\ PollIdle
    /\ mpc = "idle"
    /\ mOp = NoOp
    /\ targets = <<>>
    /\ results = <<>>
    /\ reloaded = FALSE
    /\ execCalls = <<>>
    /\ history = <<>>
    /\ notes = <<>>
    /\ reloadRequests = 0
    /\ listing = <<>>
    /\ settled = <<>>
    /\ knownUpdates = <<>>

MutIdle == CoordIdle /\ LaterIdle

\* one caller: the calls of the program follow one another
Init == StoreInit(InitFiles) /\ FilterIdle /\ DiscIdle /\ MutIdle

Step(p, calls) ==
    \/ \E c \in calls : SetBegin(p, c[1], c[2], c[3], c[4])
    \/ \E fails \in BOOLEAN : WriteTmp(p, fails)
    \/ \E fails \in BOOLEAN : Rename(p, fails)
    \/ \E fails \in BOOLEAN : FallbackOpen(p, fails)
    \/ FallbackWrite(p)
    \/ Cleanup(p)
    \/ SetReturn(p)

Next ==
    \/ Step(1, SetCalls)
    \/ \E c \in GetCalls : Get(c[1], c[2], c[3])
    \/ Crash

Spec == Init /\ [][Next]_vars

\* two callers on the same settings files: their steps interleave, as two
\* calls in flight in one event loop or in two processes do
ConcCalls ==
    { <<Src_d, S_a, "global", "disabled">>,
      <<Src_d, S_b, "global", "disabled">>,
      <<Src_o, S_a, "global", "enabled">> }

ConcFiles ==
    {[s \in Scopes |-> IF s = "global" THEN r ELSE RawMissing] :
        r \in { RawMissing,
                Object(<<BareEntry(Src_d)>>, "none"),
                Object(<<ObjectEntry(Src_d, Filters(<<S_note, Minus(S_a), S_star_ts>>))>>,
                       "none") }}

InitConc == StoreInit(ConcFiles) /\ FilterIdle /\ DiscIdle /\ MutIdle

NextConc == \E p \in Procs : Step(p, ConcCalls)

SpecConc == InitConc /\ [][NextConc]_vars

\* the resolver as a pure function of drawn inputs; no pattern of
\* FilterTokens is malformed, so the glob library's choice has no effect
InitFilter ==
    /\ fFilters \in FilterInputs
    /\ fPath \in FilterPaths
    /\ fState = "none"
    /\ globThrows = FALSE
    /\ StoreInit({[s \in Scopes |-> RawMissing]})
    /\ DiscIdle
    /\ MutIdle

NextFilter == Resolve

SpecFilter == InitFilter /\ [][NextFilter]_vars

\* the resolver on token lists with malformed glob patterns, in a build
\* whose glob library raises on them and in one whose library does not
InitGlob ==
    /\ fFilters \in GlobInputs
    /\ fPath \in GlobPaths
    /\ fState = "none"
    /\ globThrows \in BOOLEAN
    /\ StoreInit({[s \in Scopes |-> RawMissing]})
    /\ DiscIdle
    /\ MutIdle

SpecGlob == InitGlob /\ [][NextFilter]_vars

-----------------------------------------------------------------------------
(* Discovery over drawn package roots *)

S_ext == <<"e", "x", "t", "e", "n", "s", "i", "o", "n", "s">>   \* "extensions"
X_a == S_ext \o <<"/">> \o S_a                            \* "extensions/a.ts"
X_b == S_ext \o <<"/">> \o S_b                            \* "extensions/b.ts"
X_c == S_ext \o <<"/", "c", ".", "j", "s">>               \* "extensions/c.js"
X_glob == S_ext \o <<"/">> \o S_star_ts                   \* "extensions/*.ts"
S_B == <<"B", ".", "t", "s">>                             \* "B.ts"
S_up_a == <<".", ".", "/">> \o S_a                        \* "../a.ts"

DiscFileSets ==
    { {X_a, X_b, X_c},
      {X_a, X_b, X_c, S_index_ts},
      {S_index_ts, S_index_js},
      {S_index_js, S_a},
      {S_a, S_B, X_b},
      {} }

DiscTokens ==
    { X_glob, Bang(X_b), X_b, S_ext \o <<"/">>, Bang(S_ext), S_star_ts,
      S_sl_dot_a, S_up_a, <<>>, NullToken }

DiscManifests ==
    { [kind |-> k, entries |-> <<>>] : k \in {"absent", "unparsable", "null", "nolist"} }
    \cup { ManifestList(l) : l \in SeqsUpTo(DiscTokens, MaxTokens) }

\* the directory a file of the package root lies in, <<>> for the root
TopDir(path) ==
    IF \E i \in DOMAIN path : path[i] = "/"
    THEN SubSeq(path, 1, (CHOOSE i \in DOMAIN path :
                            path[i] = "/" /\ \A j \in 1..(i - 1) : path[j] # "/") - 1)
    ELSE <<>>

\* the orders in which the recursive walk can meet the files: every file
\* once, the files of a directory next to one another
Traversals(fileSet) ==
    LET n == Cardinality(fileSet)
    IN  { q \in [1..n -> fileSet] :
            /\ \A i, j \in 1..n : i # j => q[i] # q[j]
            /\ \A i, j, k \in 1..n :
                  (i < j /\ j < k /\ TopDir(q[i]) # <<>> /\ TopDir(q[i]) = TopDir(q[k]))
                      => TopDir(q[j]) = TopDir(q[i]) }

\* the traversal orders of the package roots of the model
TraversalTable ==
    [fileSet \in DiscFileSets \cup {Disk[r].files : r \in RootNames} |->
        Traversals(fileSet)]

\* one run of discoverEntrypoints over the package root
Discover ==
    /\ Len(dRuns) < MaxRuns
    /\ \E order \in TraversalTable[dFiles] :
          dRuns' = Append(dRuns, discoverEntrypoints(dFiles, order, dManifest))
    /\ UNCHANGED <<dFiles, dManifest, filterVars, storeVars, catVars, mutVars>>

InitDiscover ==
    /\ dFiles \in DiscFileSets
    /\ dManifest \in DiscManifests
    /\ dRuns = <<>>
    /\ cPackages = <<>>
    /\ cCatalog = NoCatalog
    /\ FilterIdle
    /\ StoreInit({[s \in Scopes |-> RawMissing]})
    /\ MutIdle

NextDiscover == Discover

SpecDiscover == InitDiscover /\ [][NextDiscover]_vars

-----------------------------------------------------------------------------
(* The catalog over drawn lists of installed packages *)

CatalogPackages ==
    { InstalledPackage(Src_d, Src_d, "global", "r2"),
      InstalledPackage(Src_d, Src_d, "project", "r2"),
      InstalledPackage(Src_d_x, Src_o, "global", "r2"),
      InstalledPackage(Src_d, Src_d, "global", "r3"),
      InstalledPackage(Src_o, Src_o, "project", "r1"),
      InstalledPackage(Src_o, Src_o, "global", "r4"),
      InstalledPackage(Src_q, Src_q, "global", "none"),
      InstalledPackage(Src_q, Src_q, "global", "r5") }

CatalogFiles ==
    {[s \in Scopes |-> IF s = "global" THEN r ELSE RawMissing] :
        r \in { RawMissing,
                Object(<<ObjectEntry(Src_d, Filters(<<S_star_ts, Minus(S_a)>>))>>, "none") }}

\* one traversal order for every package root
TraversalChoices ==
    { o \in [RootNames -> UNION {TraversalTable[Disk[r].files] : r \in RootNames}] :
        \A r \in RootNames : o[r] \in TraversalTable[Disk[r].files] }

\* one call of discoverPackageExtensions
BuildCatalog ==
    /\ cCatalog.kind = "none"
    /\ \E orders \in TraversalChoices :
          cCatalog' = discoverPackageExtensions(cPackages, orders, files)
    /\ UNCHANGED <<cPackages, filterVars, storeVars, discVars, mutVars>>

InitCatalog ==
    /\ cPackages \in SeqsUpTo(CatalogPackages, MaxPkgs)
    /\ cCatalog = NoCatalog
    /\ dFiles = {}
    /\ dManifest = NoManifest
    /\ dRuns = <<>>
    /\ FilterIdle
    /\ StoreInit(CatalogFiles)
    /\ MutIdle

NextCatalog == BuildCatalog

SpecCatalog == InitCatalog /\ [][NextCatalog]_vars

-----------------------------------------------------------------------------
(* The mutation coordinator over drawn listings, requests and command      *)
(* outcomes                                                                *)

\* "npm:demo@1.0.0"
Src_npm_demo_v ==
    <<"n", "p", "m", ":", "d", "e", "m", "o", "@", "1", ".", "0", ".", "0">>
\* "demo (pinned)"
Src_demo_pinned ==
    <<"d", "e", "m", "o", " ", "(", "p", "i", "n", "n", "e", "d", ")">>
\* "demo"
Src_demo == <<"d", "e", "m", "o">>
\* "git:h/r@v1"
Src_git_v == <<"g", "i", "t", ":", "h", "/", "r", "@", "v", "1">>
\* "git:h/r"
Src_git == <<"g", "i", "t", ":", "h", "/", "r">>
\* "/a/i.ts"
L_a == <<"/", "a", "/", "i", ".", "t", "s">>
\* "/b/i.ts"
L_b == <<"/", "b", "/", "i", ".", "t", "s">>
\* "/B/i.ts"
L_B == <<"/", "B", "/", "i", ".", "t", "s">>
\* "i.ts"
N_i == <<"i", ".", "t", "s">>
\* "r"
N_r == <<"r">>
\* "All Already  Up\nTo Date"
O_already ==
    <<"A", "l", "l", " ", "A", "l", "r", "e", "a", "d", "y", " ", " ", "U",
      "p", "\n", "T", "o", " ", "D", "a", "t", "e">>
\* "ok"
O_ok == <<"o", "k">>
\* ""
O_empty == <<>>
\* " \n"
O_blank == <<" ", "\n">>
\* "ok\n Pinned: d"
O_pinned ==
    <<"o", "k", "\n", " ", "P", "i", "n", "n", "e", "d", ":", " ", "d">>
\* "pinned dependency"
O_pinnedDep ==
    <<"p", "i", "n", "n", "e", "d", " ", "d", "e", "p", "e", "n", "d", "e",
      "n", "c", "y">>
\* "d pinned"
O_unpinned == <<"d", " ", "p", "i", "n", "n", "e", "d">>

\* what `pi list` reports before the action
Listings ==
    { <<>>,
      <<InstalledPackage(Src_npm_demo_v, Src_demo, "global", "none")>>,
      <<InstalledPackage(Src_npm_demo_v, Src_demo, "global", "none"),
        InstalledPackage(Src_demo_pinned, Src_demo, "project", "none")>>,
      <<InstalledPackage(L_a, N_i, "global", "none"),
        InstalledPackage(L_b, N_i, "global", "none")>>,
      <<InstalledPackage(L_B, N_i, "global", "none"),
        InstalledPackage(L_b, N_i, "global", "none")>>,
      <<InstalledPackage(L_b, N_i, "global", "none"),
        InstalledPackage(L_b, N_i, "project", "none")>>,
      <<InstalledPackage(Src_git_v, N_r, "global", "none"),
        InstalledPackage(L_B, N_i, "project", "none")>> }

KnownUpdatesInputs == { <<>>, <<Src_demo>> }

InstallSources == { Src_demo, L_a }

UpdateSources == { Src_npm_demo_v }

RemoveSources == { Src_npm_demo_v, Src_demo_pinned, L_b, Src_git }

\* exit codes of the external command
ExitCodes == { 0, 1 }

\* what the update command prints
Stdouts == { O_already, O_ok, O_empty, O_blank, O_pinned, O_pinnedDep, O_unpinned }

\* the options of a bare waitForCondition call
RetryInputs ==
    { RetryOptions(m, d, b) :
        m \in 0..MaxAttempts, d \in {100, 250}, b \in {"fixed", "linear", "exponential"} }

\* a waitForCondition call of its own
RetryBegin(options) ==
    /\ mpc = "idle"
    /\ mOp' = [NoOp EXCEPT !.kind = "retry", !.knownBefore = knownUpdates]
    /\ StartPolling(options)
    /\ mpc' = "retry"
    /\ UNCHANGED <<targets, results, reloaded, logVars, envVars,
                   filterVars, storeVars, discVars, catVars, laterVars>>

InitMutate ==
    /\ PollIdle
    /\ mpc = "idle"
    /\ mOp = NoOp
    /\ targets = <<>>
    /\ results = <<>>
    /\ reloaded = FALSE
    /\ execCalls = <<>>
    /\ history = <<>>
    /\ notes = <<>>
    /\ reloadRequests = 0
    /\ listing \in Listings
    /\ settled = listing
    /\ knownUpdates \in KnownUpdatesInputs
    /\ LaterIdle
    /\ FilterIdle
    /\ DiscIdle
    /\ StoreInit({[s \in Scopes |-> RawMissing]})

NextMutate ==
    \/ \E source \in InstallSources, explicitScope \in Scopes \cup {"none"},
          hasUI \in BOOLEAN, choice \in InstallScopeLabels, answer \in BOOLEAN :
            InstallBegin(source, explicitScope, hasUI, choice, answer)
    \/ \E code \in ExitCodes : InstallExit(code)
    \/ Poll
    \/ PollEnd
    \/ InstallAfterPoll
    \/ \E answer \in BOOLEAN : ConfirmReload(answer)
    \/ \E source \in UpdateSources, hasUI \in BOOLEAN : UpdateBegin("update", source, hasUI)
    \/ \E hasUI \in BOOLEAN : UpdateBegin("updateAll", <<>>, hasUI)
    \/ \E code \in ExitCodes, stdout \in Stdouts : UpdateExit(code, stdout)
    \/ \E source \in RemoveSources, hasUI \in BOOLEAN, listOk \in BOOLEAN,
          choice \in RemovalScopeLabels, answer \in BOOLEAN :
            RemoveBegin(source, hasUI, listOk, choice, answer)
    \/ \E code \in ExitCodes : RemoveTarget(code)
    \/ \E listOk \in BOOLEAN : RemoveSummary(listOk)
    \/ RemoveAfterPoll
    \/ \E options \in RetryInputs : RetryBegin(options)
    \/ Flush

SpecMutate == InitMutate /\ [][NextMutate]_vars

-----------------------------------------------------------------------------
(* The install command (src/src/commands/install.ts)                       *)

\* longest argument list of the install command
MaxArgs == 3

T_project == <<"-", "-", "p", "r", "o", "j", "e", "c", "t">>
T_l == <<"-", "l">>
T_global == <<"-", "-", "g", "l", "o", "b", "a", "l">>
\* names every object literal inherits from Object.prototype
T_constructor == <<"c", "o", "n", "s", "t", "r", "u", "c", "t", "o", "r">>
T_proto == <<"_", "_", "p", "r", "o", "t", "o", "_", "_">>

\* INSTALL_OPTION_HANDLERS[token]: the table's own keys, then the properties
\* the table inherits: Object.prototype.constructor is a function that
\* returns its argument, Object.prototype.__proto__ reads as an object that
\* is not a function
optionHandler(token) ==
    IF token \in {T_project, T_l} THEN "project"
    ELSE IF token = T_global THEN "global"
    ELSE IF token = T_constructor THEN "inherited"
    ELSE IF token = T_proto THEN "notCallable"
    ELSE "none"

InstallParseState(sourceParts, scope, errors, thrown) ==
    [sourceParts |-> sourceParts, scope |-> scope, errors |-> errors, thrown |-> thrown]

\* one pass of the loop of parseInstallArgs; calling a value that is not a
\* function raises a TypeError
parseToken(state, token) ==
    Let(optionHandler(token), LAMBDA handler :
        IF handler = "project"
        THEN [state EXCEPT !.errors = IF state.scope = "global"
                                        THEN Append(@, "not-both") ELSE @,
                           !.scope = "project"]
        ELSE IF handler = "global"
        THEN [state EXCEPT !.errors = IF state.scope = "project"
                                        THEN Append(@, "not-both") ELSE @,
                           !.scope = "global"]
        ELSE IF handler = "inherited" THEN state
        ELSE IF handler = "notCallable" THEN [state EXCEPT !.thrown = TRUE]
        ELSE [state EXCEPT !.sourceParts = Append(@, token)])

RECURSIVE parseTokens(_, _)
parseTokens(tokens, state) ==
    IF tokens = <<>> \/ state.thrown THEN state
    ELSE Let(parseToken(state, Head(tokens)), LAMBDA next :
             parseTokens(Tail(tokens), next))

\* Array.prototype.join(" ")
RECURSIVE JoinSpace(_)
JoinSpace(parts) ==
    IF parts = <<>> THEN <<>>
    ELSE IF Len(parts) = 1 THEN parts[1]
    ELSE parts[1] \o <<" ">> \o JoinSpace(Tail(parts))

parseInstallArgs(tokens) ==
    Let(parseTokens(tokens, InstallParseState(<<>>, "none", <<>>, FALSE)), LAMBDA state :
        [source |-> Trim(JoinSpace(state.sourceParts)), scope |-> state.scope,
         errors |-> state.errors, thrown |-> state.thrown])

\* handleInstallSubcommand(argv, ctx, pi)
HandleInstallSubcommand(hasUI, choice, answer) ==
    \E parsed \in {parseInstallArgs(argv)} :
        /\ mpc = "idle"
        /\ argv # <<>>
        /\ IF parsed.thrown
             THEN /\ raised' = "TypeError"
                  /\ mpc' = "done"
                  /\ mOp' = [NoOp EXCEPT !.kind = "install-command", !.hasUI = hasUI]
                  /\ UNCHANGED <<pollVars, targets, results, reloaded, logVars, envVars,
                                 argv, exceptCmd, filterVars, storeVars, discVars, catVars>>
             ELSE IF parsed.errors # <<>>
             THEN /\ notes' = notes \o <<"not-both", "usage">>
                  /\ mpc' = "done"
                  /\ mOp' = [NoOp EXCEPT !.kind = "install-command", !.hasUI = hasUI]
                  /\ UNCHANGED <<pollVars, targets, results, reloaded, execCalls, history,
                                 reloadRequests, envVars, laterVars,
                                 filterVars, storeVars, discVars, catVars>>
             ELSE IF parsed.source = <<>>
             THEN /\ notes' = Append(notes, "usage")
                  /\ mpc' = "done"
                  /\ mOp' = [NoOp EXCEPT !.kind = "install-command", !.hasUI = hasUI]
                  /\ UNCHANGED <<pollVars, targets, results, reloaded, execCalls, history,
                                 reloadRequests, envVars, laterVars,
                                 filterVars, storeVars, discVars, catVars>>
             ELSE InstallBegin(parsed.source, parsed.scope, hasUI, choice, answer)

ArgTokens == { T_project, T_l, T_global, T_constructor, T_proto, Src_demo }

ArgvInputs == SeqsUpTo(ArgTokens, MaxArgs) \ {<<>>}

InitCommand ==
    /\ PollIdle
    /\ mpc = "idle"
    /\ mOp = NoOp
    /\ targets = <<>>
    /\ results = <<>>
    /\ reloaded = FALSE
    /\ execCalls = <<>>
    /\ history = <<>>
    /\ notes = <<>>
    /\ reloadRequests = 0
    /\ listing = <<>>
    /\ settled = <<>>
    /\ knownUpdates = <<>>
    /\ argv \in ArgvInputs
    /\ raised = "none"
    /\ IdleExceptCmd
    /\ FilterIdle
    /\ DiscIdle
    /\ StoreInit({[s \in Scopes |-> RawMissing]})

NextCommand ==
    \/ \E hasUI \in BOOLEAN, choice \in InstallScopeLabels, answer \in BOOLEAN :
          HandleInstallSubcommand(hasUI, choice, answer)
    \/ \E code \in ExitCodes : InstallExit(code)
    \/ Poll
    \/ PollEnd
    \/ InstallAfterPoll
    \/ \E answer \in BOOLEAN : ConfirmReload(answer)
    \/ Flush

SpecCommand == InitCommand /\ [][NextCommand]_vars

-----------------------------------------------------------------------------
(* The package root lookup on its own *)

\* "npm:"
Src_npm_only == W_npm

RootSources == { Src_npm_demo_v, W_npm \o Src_demo, Src_npm_only }

InitRoot ==
    /\ rootLookup \in
          { [NoLookup EXCEPT !.pkg = InstalledPackage(source, Src_demo, scope, "none"),
                             !.npmGlobalRoot = npmGlobalRoot,
                             !.manifests = manifests] :
              source \in RootSources, scope \in Scopes, npmGlobalRoot \in BOOLEAN,
              manifests \in SUBSET Places }
    /\ CoordIdle
    /\ IdleExceptRoot
    /\ FilterIdle
    /\ DiscIdle
    /\ StoreInit({[s \in Scopes |-> RawMissing]})

NextRoot == ResolveRoot

SpecRoot == InitRoot /\ [][NextRoot]_vars

-----------------------------------------------------------------------------
(* Saving staged changes on its own *)

RowIds == {"r1", "r2"}

\* the extension paths of the rows
RowPaths == { S_a, S_b, S_dot_a, S_sl_dot_a }

\* the rows of the panel, in any order, no two with the same extensionPath
\* (buildPackageConfigRows keeps one row per extensionPath)
RowInputs ==
    { <<>> }
    \cup { <<PackageConfigRow("r1", path, original, available)>> :
              path \in RowPaths, original \in States, available \in BOOLEAN }
    \cup { <<PackageConfigRow("r1", paths[1], "enabled", TRUE),
             PackageConfigRow("r2", paths[2], original, available)>> :
              paths \in { pp \in RowPaths \X RowPaths : pp[1] # pp[2] },
              original \in States, available \in BOOLEAN }

StagedInputs == [RowIds -> States \cup {"none"}]

ApplyRaws ==
    { RawMissing, RawInvalid,
      Object(<<BareEntry(Src_d)>>, "none"),
      Object(<<ObjectEntry(Src_d, Filters(<<S_note, Minus(S_a), S_star_ts>>))>>, "theme") }

InitApply ==
    /\ applyCall \in
          { [NoApply EXCEPT !.rows = rows, !.staged = staged,
                            !.pkg = InstalledPackage(Src_d, Src_d, "global", "none"),
                            !.sortedRows = sortRows(rows), !.next = 1] :
              rows \in RowInputs, staged \in StagedInputs }
    /\ CoordIdle
    /\ IdleExceptApply
    /\ FilterIdle
    /\ DiscIdle
    /\ StoreInit({[s \in Scopes |-> IF s = "global" THEN r ELSE RawMissing] : r \in ApplyRaws})

NextApply ==
    \/ \E writeOk \in BOOLEAN : ApplyRow(writeOk)
    \/ ApplyReturn

SpecApply == InitApply /\ [][NextApply]_vars

-----------------------------------------------------------------------------
(* The auto-update timer on its own *)

\* the intervals enableAutoUpdate is called with: none, one hour, one day
IntervalInputs == { 0, 3600000, 86400000 }

InitTimer ==
    /\ autoUpdateTimer = 0
    /\ liveTimers = {}
    /\ timersCreated = 0
    /\ auConfig \in { AutoUpdateOff } \cup
                    { AutoUpdateConfig(TRUE, intervalMs) : intervalMs \in IntervalInputs }
    /\ lastTimerCall = "none"
    /\ CoordIdle
    /\ IdleExceptTimer
    /\ FilterIdle
    /\ DiscIdle
    /\ StoreInit({[s \in Scopes |-> RawMissing]})

NextTimer ==
    \/ StartAutoUpdateTimer
    \/ StopAutoUpdateTimer
    \/ \E intervalMs \in IntervalInputs : EnableAutoUpdate(intervalMs)
    \/ DisableAutoUpdate
    \/ \E hasUI \in BOOLEAN : SessionStart(hasUI)
    \/ SessionShutdown

SpecTimer == InitTimer /\ [][NextTimer]_vars

-----------------------------------------------------------------------------
(* The interactive manager on its own *)

LocalIds == {"a.ts", "b.ts"}
ToggleStates == {"enabled", "disabled"}
UnifiedResults == {"cancel", "remote", "help"}
UnsavedChoices == {"Save", "Discard", "Stay in manager", "undefined"}

InitManager ==
    /\ mgrPc = "closed"
    /\ mItems = NoMap
    /\ mStaged = NoMap
    /\ \E ids \in SUBSET LocalIds : diskState \in [ids -> ToggleStates]
    /\ pendingResult = "none"
    /\ lastLeave = NoLeave
    /\ CoordIdle
    /\ IdleExceptMgr
    /\ FilterIdle
    /\ DiscIdle
    /\ StoreInit({[s \in Scopes |-> RawMissing]})

NextManager ==
    \/ ShowInteractiveOnce
    \/ \E id \in LocalIds \cup {PackageItemId}, newValue \in ToggleStates :
          OnToggle(id, newValue)
    \/ \E result \in UnifiedResults : HandleUnifiedAction(result)
    \/ \E choice \in UnsavedChoices, writeOk \in BOOLEAN :
          AnswerUnsavedChanges(choice, writeOk)

SpecManager == InitManager /\ [][NextManager]_vars

-----------------------------------------------------------------------------
(* Properties of the filter policy resolver, checked under SpecFilter     *)
(* (C13 under SpecGlob)                                                    *)

Resolved == fState # "none"

\* the positions of the override markers for path p in a token list: the
\* trimmed token begins with "+" or "-" and the rest normalizes to the
\* normalized p
OverrideIndexes(list, p) ==
    {i \in DOMAIN list :
        LET t == Trim(list[i])
        IN  /\ t # <<>>
            /\ t[1] \in {"+", "-"}
            /\ normalizeRelativePath(Slice(t, 1)) = normalizeRelativePath(p)}

MaxOf(S) == CHOOSE i \in S : \A j \in S : j <= i

SignOf(token) == IF Trim(token)[1] = "+" THEN "enabled" ELSE "disabled"

IsExcludeToken(token) ==
    LET t == Trim(token)
    IN  t # <<>> /\ t[1] = "!" /\ normalizeRelativePath(Slice(t, 1)) # <<>>

IsIncludeToken(token) ==
    LET t == Trim(token)
    IN  t # <<>> /\ t[1] \notin {"+", "-", "!"} /\ normalizeRelativePath(t) # <<>>

PatternOf(token) ==
    LET t == Trim(token)
    IN  normalizeRelativePath(IF t[1] = "!" THEN Slice(t, 1) ELSE t)

TokenMatches(token, p) ==
    matchesFilterPattern(normalizeRelativePath(p), PatternOf(token)) = "true"

SomeIncludeMatches(list, p) ==
    \E i \in DOMAIN list : IsIncludeToken(list[i]) /\ TokenMatches(list[i], p)

SomeExcludeMatches(list, p) ==
    \E i \in DOMAIN list : IsExcludeToken(list[i]) /\ TokenMatches(list[i], p)

\* C1: for every extension path, the resolver returns enabled when the token
\* list is absent (undefined) and disabled when the list is present but empty.
C1_AbsentEnabledEmptyDisabled ==
    Resolved =>
        /\ (fFilters.kind = "undefined" => fState = "enabled")
        /\ (fFilters.kind = "array" /\ fFilters.list = <<>> => fState = "disabled")

C1_Witness ==
    Resolved /\ fFilters.kind = "array" /\ fFilters.list = <<>> /\ fState = "disabled"

\* C2: when the token list holds at least one override marker for the path,
\* the verdict is the sign of the last such marker in list order, whatever
\* include and exclude patterns the list also holds.
C2_LastOverrideWins ==
    (Resolved /\ fFilters.kind = "array" /\ OverrideIndexes(fFilters.list, fPath) # {}) =>
        fState = SignOf(fFilters.list[MaxOf(OverrideIndexes(fFilters.list, fPath))])

\* two markers of opposite sign for the path, an exclude pattern that matches
\* it, and the last marker enabling it
C2_Witness ==
    /\ Resolved
    /\ fFilters.kind = "array"
    /\ LET idx == OverrideIndexes(fFilters.list, fPath)
       IN  /\ Cardinality(idx) >= 2
           /\ \E i \in idx : SignOf(fFilters.list[i]) = "disabled"
           /\ SignOf(fFilters.list[MaxOf(idx)]) = "enabled"
    /\ SomeExcludeMatches(fFilters.list, fPath)
    /\ fState = "enabled"

\* C3: for a non-empty token list without an override marker for the path,
\* the verdict is enabled if and only if (the list has no include pattern or
\* some include pattern matches the normalized path) and no exclude pattern
\* matches the normalized path.
C3_IncludeExcludeVerdict ==
    (/\ Resolved
     /\ fFilters.kind = "array"
     /\ fFilters.list # <<>>
     /\ OverrideIndexes(fFilters.list, fPath) = {}) =>
        (fState = "enabled" <=>
            /\ \/ ~\E i \in DOMAIN fFilters.list : IsIncludeToken(fFilters.list[i])
               \/ SomeIncludeMatches(fFilters.list, fPath)
            /\ ~SomeExcludeMatches(fFilters.list, fPath))

\* an include pattern matches the path, an exclude pattern matches it too,
\* and the verdict is disabled
C3_Witness ==
    /\ Resolved
    /\ fFilters.kind = "array"
    /\ OverrideIndexes(fFilters.list, fPath) = {}
    /\ SomeIncludeMatches(fFilters.list, fPath)
    /\ SomeExcludeMatches(fFilters.list, fPath)
    /\ fState = "disabled"

RemoveAt(list, i) == SubSeq(list, 1, i - 1) \o SubSeq(list, i + 1, Len(list))

\* a token the loop of lines 241-267 drops: blank after trim, or an exclude
\* or include whose pattern normalizes to the empty string
IsIgnoredToken(token) ==
    LET t == Trim(token)
    IN  \/ t = <<>>
        \/ t[1] = "!" /\ normalizeRelativePath(Slice(t, 1)) = <<>>
        \/ t[1] \notin {"+", "-", "!"} /\ normalizeRelativePath(t) = <<>>

\* an annotation of the shape "notes:keep": no "+", "-" or "!" in front and
\* a colon inside
IsAnnotation(token) ==
    LET t == Trim(token)
    IN  /\ t # <<>>
        /\ t[1] \notin {"+", "-", "!"}
        /\ \E i \in DOMAIN t : t[i] = ":"

VerdictWithout(i) == getPackageFilterState(Filters(RemoveAt(fFilters.list, i)), fPath)

\* C11 as stated: an opaque annotation such as "notes:keep" is ignored by
\* resolution, so the verdict for a path is the same with and without it in
\* the token list.
C11_AnnotationIgnored ==
    (Resolved /\ fFilters.kind = "array") =>
        \A i \in DOMAIN fFilters.list :
            (IsAnnotation(fFilters.list[i]) \/ IsIgnoredToken(fFilters.list[i])) =>
                VerdictWithout(i) = fState

\* C11: a token that is blank after trimming, or whose pattern normalizes to
\* the empty string, is ignored by resolution: the verdict for a path is the
\* same with and without it, as long as the list without it is not empty.
C11_BlankTokenIgnored ==
    (Resolved /\ fFilters.kind = "array" /\ Len(fFilters.list) >= 2) =>
        \A i \in DOMAIN fFilters.list :
            IsIgnoredToken(fFilters.list[i]) => VerdictWithout(i) = fState

\* a list with an ignored token next to an include pattern that does not
\* match the path: disabled with and without the ignored token
C11_Witness ==
    /\ Resolved
    /\ fFilters.kind = "array"
    /\ Len(fFilters.list) >= 2
    /\ \E i \in DOMAIN fFilters.list :
          /\ IsIgnoredToken(fFilters.list[i])
          /\ Trim(fFilters.list[i]) # <<>>
    /\ \E i \in DOMAIN fFilters.list : IsIncludeToken(fFilters.list[i])
    /\ OverrideIndexes(fFilters.list, fPath) = {}
    /\ fState = "disabled"

IsMalformedToken(token) ==
    (IsIncludeToken(token) \/ IsExcludeToken(token)) /\ Malformed(PatternOf(token))

\* the token's pattern is the path itself, which line 220 matches before
\* the glob call
IsPathItself(token, p) == PatternOf(token) = normalizeRelativePath(p)

IncludeIndexes(list) == {i \in DOMAIN list : IsIncludeToken(list[i])}
ExcludeIndexes(list) == {i \in DOMAIN list : IsExcludeToken(list[i])}

\* C13 as stated: matchesFilterPattern never raises and yields false on a
\* malformed glob, so a list whose only include patterns are malformed
\* resolves every path to disabled and a malformed exclude pattern disables
\* no path.
C13_MalformedGlobFalse ==
    (Resolved /\ fFilters.kind = "array" /\ fFilters.list # <<>>
        /\ OverrideIndexes(fFilters.list, fPath) = {}) =>
        LET list == fFilters.list
        IN  /\ fState # "throws"
            /\ \A i \in DOMAIN list :
                  IsMalformedToken(list[i]) => ~TokenMatches(list[i], fPath)
            /\ (/\ IncludeIndexes(list) # {}
                /\ \A i \in IncludeIndexes(list) : IsMalformedToken(list[i]))
                    => fState = "disabled"
            /\ (/\ IncludeIndexes(list) = {}
                /\ \A i \in ExcludeIndexes(list) : IsMalformedToken(list[i]))
                    => fState = "enabled"

\* C13: matchesFilterPattern never raises; where the glob library raises on
\* a malformed glob the outcome is false unless the target is the pattern
\* text itself, so there a list whose only include patterns are malformed
\* resolves every other path to disabled and a malformed exclude pattern
\* disables no other path.
C13_MalformedGlobNeverRaises ==
    (Resolved /\ fFilters.kind = "array" /\ fFilters.list # <<>>
        /\ OverrideIndexes(fFilters.list, fPath) = {}) =>
        LET list == fFilters.list
            others == {i \in DOMAIN list :
                          IsMalformedToken(list[i]) /\ ~IsPathItself(list[i], fPath)}
        IN  /\ fState # "throws"
            /\ \A i \in DOMAIN list :
                  matchesFilterPattern(normalizeRelativePath(fPath), list[i]) # "throws"
            /\ globThrows =>
                /\ \A i \in others : ~TokenMatches(list[i], fPath)
                /\ (/\ IncludeIndexes(list) # {}
                    /\ IncludeIndexes(list) \subseteq others)
                        => fState = "disabled"
                /\ (/\ IncludeIndexes(list) = {}
                    /\ ExcludeIndexes(list) \subseteq others)
                        => fState = "enabled"

\* the library raises, the list holds one malformed include pattern and
\* nothing else, the path is another text, and the verdict is disabled
C13_Witness ==
    /\ Resolved
    /\ globThrows
    /\ fFilters.kind = "array"
    /\ Len(fFilters.list) = 1
    /\ IsIncludeToken(fFilters.list[1])
    /\ IsMalformedToken(fFilters.list[1])
    /\ ~IsPathItself(fFilters.list[1], fPath)
    /\ fState = "disabled"

-----------------------------------------------------------------------------
(* Properties of the settings store, checked under Spec (one caller) *)

SetDone(p) == pc[p] = "done"
SetOk(p) == pc[p] = "done" /\ call[p].result = "ok"

\* the file read by the call was missing, empty or a JSON object
ReadableBefore(p) == call[p].before.kind \in {"missing", "empty", "object"}

\* the document read by the call has the shape of section 3 of the data
\* model: packages absent or an array of strings and objects
WellShapedBefore(p) ==
    LET packages == call[p].before.doc.packages
    IN  /\ packages.kind # "bad"
        /\ \A i \in DOMAIN packages.list : packages.list[i].kind # "null"

GetFollows(p) ==
    /\ lastGet.valid
    /\ lastGet.source = call[p].source
    /\ lastGet.path = call[p].path
    /\ lastGet.scope = call[p].scope

\* C4: round trip.  When the settings file is missing, empty or a JSON
\* object (here: of the documented shape, and the write meets no I/O error),
\* setPackageExtensionState(source, path, scope, target) returns ok and a
\* following getPackageExtensionState(source, path, scope) returns target.
C4_RoundTrip ==
    \A p \in Procs :
        (SetDone(p) /\ ReadableBefore(p) /\ WellShapedBefore(p) /\ ~call[p].thrown) =>
            /\ call[p].result = "ok"
            /\ (GetFollows(p) => lastGet.state = call[p].target)

\* the tokens of the package's list before the call: those of the first
\* entry whose normalized source is that of the call, when it is an object
\* with a list
TokensBefore(p) ==
    LET list == call[p].before.doc.packages.list
        index == findIndex(list, normalizeSource(call[p].source))
    IN  IF index > 0 /\ list[index].kind = "object" /\ list[index].extensions.kind = "array"
        THEN list[index].extensions.list
        ELSE <<>>

\* the tokens of the package's list in the file after the call
TokensAfter(p) ==
    LET list == files[call[p].scope].doc.packages.list
        before == call[p].before.doc.packages.list
        index == findIndex(before, normalizeSource(call[p].source))
        at == IF index > 0 THEN index ELSE Len(list)
    IN  list[at].extensions.list

NewMarker(p) ==
    <<IF call[p].target = "enabled" THEN "+" ELSE "-">> \o normalizeRelativePath(call[p].path)

\* the string tokens of a list that are no override marker for path
OtherTokens(list, path) ==
    LET idx == OverrideIndexes(list, path)
        Other(i) == list[i] # NullToken /\ i \notin idx
        RECURSIVE Collect(_)
        Collect(i) == IF i > Len(list) THEN <<>>
                      ELSE (IF Other(i) THEN <<list[i]>> ELSE <<>>) \o Collect(i + 1)
    IN  Collect(1)

\* C5: setPackageExtensionState keeps every pre-existing token of the
\* package's list that is not an override marker for path, verbatim and in
\* the same relative order, removes the earlier markers for path, and
\* appends the new marker as the last token.
C5_KeepsOthersRemovesMarkers ==
    \A p \in Procs :
        (SetOk(p) /\ WellShapedBefore(p)) =>
            TokensAfter(p) = Append(OtherTokens(TokensBefore(p), call[p].path), NewMarker(p))

\* C6: when the settings file exists but is not valid JSON or not a JSON
\* object, setPackageExtensionState returns {ok: false, error} carrying the
\* parse or shape error and performs no write: the file is unchanged.
C6_InvalidFileNoWrite ==
    \A p \in Procs :
        (pc[p] # "idle" /\ call[p].before.kind \in {"invalid", "nonobject"}) =>
            /\ pc[p] = "done"
            /\ call[p].result = "error"
            /\ call[p].error = (IF call[p].before.kind = "invalid"
                                THEN "Invalid JSON" ELSE "Invalid settings format")
            /\ files[call[p].scope] = call[p].before
            /\ \A n \in TmpNames : tmp[n] = RawMissing

C6_Witness ==
    /\ pc[1] = "done"
    /\ call[1].before.kind = "invalid"
    /\ call[1].result = "error"
    /\ files[call[1].scope] = RawInvalid

\* C7: if the process stops after the temporary file is written and before
\* the rename, the settings file still holds exactly its original content.
C7_CrashBeforeRenameKeepsFile ==
    \A p \in Procs :
        (crashed /\ pc[p] = "rename") => files[call[p].scope] = call[p].before

C7_Witness ==
    /\ crashed
    /\ pc[1] = "rename"
    /\ tmp[call[1].tmpName] = call[1].content
    /\ call[1].content # call[1].before
    /\ call[1].before.kind = "object"

\* the call has entered writeSettingsFile
InWrite(p) == pc[p] \in {"tmpwrite", "rename", "fallback", "fallbackwrite", "cleanup"}

OldOrNew(p) == files[call[p].scope] \in {call[p].before, call[p].content}

\* C8: in every state of writeSettingsFile, the path taken when the
\* temporary write or the rename fails included, a reader of the settings
\* path sees the complete previous document or the complete new one.
C8_ReaderSeesOldOrNew ==
    \A p \in Procs : InWrite(p) => OldOrNew(p)

\* C8 as amended: in every state of writeSettingsFile outside the direct
\* write fallback, a reader sees the complete previous document (up to the
\* rename) or the complete new one (from the rename on).
C8_AtomicOutsideFallback ==
    \A p \in Procs :
        (InWrite(p) /\ ~call[p].fallback) =>
            /\ OldOrNew(p)
            /\ (pc[p] \in {"tmpwrite", "rename"} => files[call[p].scope] = call[p].before)
            /\ (pc[p] = "cleanup" => files[call[p].scope] = call[p].content)

C8_Witness ==
    /\ pc[1] = "cleanup"
    /\ ~call[1].fallback
    /\ files[call[1].scope] = call[1].content
    /\ call[1].content # call[1].before
    /\ call[1].before.kind = "object"

NoDuplicateSources(list) ==
    \A i, j \in DOMAIN list :
        (i < j /\ list[i].kind # "null" /\ list[j].kind # "null") =>
            normalizeSource(list[i].source) # normalizeSource(list[j].source)

C12_UnreadableFileReadsEnabled ==
    (lastGet.valid /\ files[lastGet.scope].kind \in {"missing", "invalid", "nonobject"}) =>
        lastGet.state = "enabled"

\* a get on a file that is not JSON, and one on a file that is not an object
C12_Witness ==
    /\ lastGet.valid
    /\ files[lastGet.scope].kind \in {"invalid", "nonobject"}
    /\ lastGet.state = "enabled"

-----------------------------------------------------------------------------
(* Properties of entrypoint discovery, checked under SpecDiscover *)

\* the string tokens of the manifest list, trimmed
ManifestTokens ==
    LET strings == SelectSeq(dManifest.entries, IsStringToken)
    IN  [i \in DOMAIN strings |-> Trim(strings[i])]

\* the entrypoint files of the package root's recursive listing
Listing == {normalizeRelativePath(f) : f \in {g \in dFiles : isExtensionEntrypointPath(g)}}

ListingOrder == collectExtensionFilesFromDir(CHOOSE q \in TraversalTable[dFiles] : TRUE)

IsUnsafeToken(token) == token # <<>> /\ ~isSafeRelativePath(tokenPattern(token))

IsExclusion(token) == StartsWith(token, <<"!">>)

\* the files a manifest token matches: none for a blank or unsafe token
TokenFiles(token) ==
    IF token = <<>> \/ IsUnsafeToken(token) THEN {}
    ELSE LET matched == patternFiles(ListingOrder, tokenPattern(token))
         IN  {matched[i] : i \in DOMAIN matched}

Members(list) == {list[i] : i \in DOMAIN list}

ListRuns == {i \in DOMAIN dRuns : dRuns[i].kind = "array"}

\* C14 as stated: a file matched by an exclusion token is absent from the
\* discovery result, also when an include token before or after the
\* exclusion matches the file.
C14_ExcludedFileAbsent ==
    dManifest.kind = "list" =>
        \A r \in ListRuns : \A i \in DOMAIN ManifestTokens :
            IsExclusion(ManifestTokens[i]) =>
                TokenFiles(ManifestTokens[i]) \cap Members(dRuns[r].list) = {}

\* C14: a file matched by an exclusion token is absent from the discovery
\* result unless an include token after the exclusion matches it; an include
\* token before the exclusion does not bring it back.
C14_ExcludedUnlessIncludedLater ==
    dManifest.kind = "list" =>
        \A r \in ListRuns : \A i \in DOMAIN ManifestTokens :
            IsExclusion(ManifestTokens[i]) =>
                \A f \in TokenFiles(ManifestTokens[i]) :
                    (~\E j \in DOMAIN ManifestTokens :
                        /\ j > i
                        /\ ~IsExclusion(ManifestTokens[j])
                        /\ f \in TokenFiles(ManifestTokens[j]))
                    => f \notin Members(dRuns[r].list)

\* ["extensions/*.ts", "!extensions/b.ts"] over a.ts, b.ts and c.js
C14_Witness ==
    /\ dManifest = ManifestList(<<X_glob, Bang(X_b)>>)
    /\ X_b \in dFiles
    /\ dRuns # <<>>
    /\ dRuns[1] = Entrypoints(<<X_a>>)

\* strictly ascending in the order of localeCompare
IsSortedPaths(list) ==
    \A i, j \in DOMAIN list : i < j => localeCompare(list[i], list[j]) < 0

IsSingleGlob ==
    /\ dManifest.kind = "list"
    /\ Len(dManifest.entries) = 1
    /\ IsStringToken(dManifest.entries[1])
    /\ ~IsExclusion(ManifestTokens[1])
    /\ ManifestTokens[1] # <<>>
    /\ ~IsUnsafeToken(ManifestTokens[1])
    /\ hasGlobMagic(tokenPattern(ManifestTokens[1]))

\* C16: a manifest glob token selects exactly the files of the recursive
\* listing that end in .ts or .js and match the pattern; "extensions/*.ts"
\* over extensions/a.ts, extensions/b.ts and extensions/c.js yields
\* [extensions/a.ts, extensions/b.ts].
C16_GlobSelectsMatchingEntrypoints ==
    \A r \in DOMAIN dRuns :
        /\ IsSingleGlob =>
              /\ dRuns[r].kind = "array"
              /\ Members(dRuns[r].list) =
                    {f \in Listing :
                        matchesFilterPattern(f, tokenPattern(ManifestTokens[1])) = "true"}
        /\ (dManifest = ManifestList(<<X_glob>>) /\ dFiles = {X_a, X_b, X_c})
              => dRuns[r] = Entrypoints(<<X_a, X_b>>)

C16_Witness ==
    /\ dManifest = ManifestList(<<X_glob>>)
    /\ dFiles = {X_a, X_b, X_c}
    /\ dRuns # <<>>
    /\ dRuns[1] = Entrypoints(<<X_a, X_b>>)

HasDotDotSegment(path) ==
    LET segments == SplitSegments(path, <<>>)
    IN  \E i \in DOMAIN segments : segments[i] = <<".", ".">>

\* the manifest list without its unsafe tokens
SafeEntries ==
    LET IsSafe(token) == ~IsStringToken(token) \/ ~IsUnsafeToken(Trim(token))
    IN  SelectSeq(dManifest.entries, IsSafe)

\* C17: a manifest token that fails the path-safety check is skipped without
\* an error and the other tokens are processed as if it were not there, so
\* no path of a discovery result has a ".." segment.
C17_UnsafeTokensSkipped ==
    dManifest.kind = "list" =>
        \A r \in DOMAIN dRuns :
            /\ dRuns[r].kind = "array"
            /\ \A i \in DOMAIN dRuns[r].list : ~HasDotDotSegment(dRuns[r].list[i])
            /\ dRuns[r] = discoverEntrypoints(dFiles, CHOOSE q \in TraversalTable[dFiles] : TRUE,
                                              ManifestList(SafeEntries))

\* an unsafe token before a token that selects a file
C17_Witness ==
    /\ dManifest = ManifestList(<<S_up_a, X_b>>)
    /\ dRuns # <<>>
    /\ dRuns[1] = Entrypoints(<<X_b>>)

\* the conventional fallback: index.ts, else index.js, else nothing
Fallback ==
    IF S_index_ts \in dFiles THEN <<S_index_ts>>
    ELSE IF S_index_js \in dFiles THEN <<S_index_js>>
    ELSE <<>>

\* C18: discoverEntrypoints returns the conventional fallback if the
\* manifest is absent, unparsable or declares no extensions list, and only
\* then: with a declared list the result holds files the tokens select and
\* is empty when they select none, also when index.ts or index.js exists.
C18_FallbackIffNoList ==
    \A r \in DOMAIN dRuns :
        IF dManifest.kind = "list"
        THEN /\ dRuns[r].kind = "array"
             /\ Members(dRuns[r].list) \subseteq
                    UNION {TokenFiles(ManifestTokens[i]) : i \in DOMAIN ManifestTokens}
        ELSE dRuns[r] = Entrypoints(Fallback)

-----------------------------------------------------------------------------
(* Properties of the catalog, checked under SpecCatalog *)

TupleOf(entry) == <<entry.packageScope, entry.packageSource, entry.extensionPath>>

\* C19: the catalog returned by discoverPackageExtensions never holds two
\* records with the same (scope, source, extensionPath), also when the list
\* of installed packages names a package more than once.
C19_NoDuplicateRecords ==
    cCatalog.kind = "array" =>
        \A i, j \in DOMAIN cCatalog.entries :
            i # j => TupleOf(cCatalog.entries[i]) # TupleOf(cCatalog.entries[j])

\* C20: the id of a record is a function of its (scope, source,
\* extensionPath) only, and two records with different tuples never have
\* the same id.
C20_IdIdentifiesTuple ==
    cCatalog.kind = "array" =>
        /\ \A i \in DOMAIN cCatalog.entries :
              cCatalog.entries[i].id =
                  IdPrefix \o ScopeChars(cCatalog.entries[i].packageScope) \o <<":">>
                      \o cCatalog.entries[i].packageSource \o <<":">>
                      \o cCatalog.entries[i].extensionPath
        /\ \A i, j \in DOMAIN cCatalog.entries :
              TupleOf(cCatalog.entries[i]) # TupleOf(cCatalog.entries[j])
                  => cCatalog.entries[i].id # cCatalog.entries[j].id

-----------------------------------------------------------------------------
(* Properties of interleaved calls, checked under SpecConc *)

\* the two calls are over, both ok, on the same settings file, and each
\* read the file before the other wrote it
Interleaved ==
    /\ SetOk(1) /\ SetOk(2)
    /\ call[1].scope = call[2].scope
    /\ call[1].before = call[2].before
    /\ ~call[1].fallback /\ ~call[2].fallback
    /\ call[1].tmpName # call[2].tmpName

SameRule ==
    /\ normalizeSource(call[1].source) = normalizeSource(call[2].source)
    /\ normalizeRelativePath(call[1].path) = normalizeRelativePath(call[2].path)

\* C9: when two setPackageExtensionState calls on the same settings file
\* interleave (each reads the document before the other writes it), the
\* final document holds the effect of both mutations.
C9_BothMutationsKept ==
    (Interleaved /\ ~SameRule) =>
        \A p \in Procs :
            getPackageExtensionState(files[call[p].scope], call[p].source, call[p].path)
                = call[p].target

-----------------------------------------------------------------------------
(* Properties of the mutation coordinator, checked under SpecMutate       *)
(* (C24 under SpecMutateFair)                                              *)

\* the event loop resumes an awaited condition and fires a due timer, so a
\* running retryWithBackoff loop always takes its next step, and the action
\* awaiting it goes on once it has returned
SpecMutateFair ==
    /\ SpecMutate
    /\ WF_vars(Poll)
    /\ WF_vars(PollEnd)
    /\ WF_vars(InstallAfterPoll)
    /\ WF_vars(RemoveAfterPoll)

MaxOf2(a, b) == IF a >= b THEN a ELSE b

\* the bookkeeping of a retryWithBackoff call at every point of its loop
PollingBounded ==
    pResult # "idle" =>
        /\ evals <= pOptions.maxAttempts
        /\ Len(delays) <= MaxOf2(pOptions.maxAttempts - 1, 0)
        /\ mOp.kind \in {"install", "remove"} => pOptions.maxAttempts = 10
        /\ pResult = "running" =>
              /\ evals = attempt - 1
              /\ Len(delays) = IF attempt <= pOptions.maxAttempts
                                 THEN attempt - 1
                                 ELSE MaxOf2(pOptions.maxAttempts - 1, 0)
        /\ pResult = "true" => evals = attempt /\ Len(delays) = attempt - 1
        /\ pResult = "undefined" =>
              /\ evals = pOptions.maxAttempts
              /\ Len(delays) = MaxOf2(pOptions.maxAttempts - 1, 0)
        /\ \A k \in DOMAIN delays :
              delays[k] = IF pOptions.backoff = "exponential"
                            THEN pOptions.delayMs * Pow2(k - 1)
                            ELSE IF pOptions.backoff = "linear"
                            THEN pOptions.delayMs * k
                            ELSE pOptions.delayMs

\* C24: visibility polling is bounded and ends only by success or by
\* exhausting its budget: the condition is evaluated at most maxAttempts
\* times (10 in install and remove), a true result ends the loop at that
\* attempt, every failed attempt but the last is followed by one wait, of
\* delayMs*2^(k-1) after the k-th failed attempt under exponential backoff
\* (the default, and what install and remove pass), the loop returns no
\* result only after maxAttempts failed evaluations (none when maxAttempts
\* is 0), and every started polling returns.
C24_PollingBoundedAndTerminates ==
    /\ []PollingBounded
    /\ (pResult = "running") ~> PollingOver

\* an installation whose polling ran out after 10 evaluations and 9 waits
C24_Witness ==
    /\ mOp.kind = "install"
    /\ pResult = "undefined"
    /\ evals = 10
    /\ delays = [k \in 1..9 |-> 100 * Pow2(k - 1)]

\* the pi.exec calls that change the installation, oldest first
MutatingCalls == SelectSeq(execCalls, LAMBDA c : c.command # "list")

ListCalls == SelectSeq(execCalls, LAMBDA c : c.command = "list")

\* number of times x occurs in the sequence q
Count(q, x) == Cardinality({ i \in DOMAIN q : q[i] = x })

\* C21: in every run of install, update or remove the external mutating
\* command of a target is issued once and never again, whether it exited
\* non-zero or the visibility polling ran out: the mutating calls are the
\* one install or update command, or one remove command per executed
\* target, no two of them alike, and every other call is a listing.
C21_MutatingCommandOnce ==
    /\ \A i, j \in DOMAIN MutatingCalls :
          i # j => MutatingCalls[i] # MutatingCalls[j]
    /\ \A i \in DOMAIN execCalls :
          execCalls[i].command \in {"install", "update", "remove", "list"}
    /\ mOp.kind \in {"none", "retry"} => MutatingCalls = <<>>
    /\ mOp.kind = "install" =>
          IF mpc = "done" /\ "install-cancelled" \in {notes[i] : i \in DOMAIN notes}
          THEN MutatingCalls = <<>>
          ELSE MutatingCalls = <<ExecCall("install", mOp.scope, mOp.normalized)>>
    /\ mOp.kind \in {"update", "updateAll"} =>
          MutatingCalls = <<ExecCall("update", "global", mOp.source)>>
    /\ mOp.kind = "remove" =>
          MutatingCalls =
              [i \in DOMAIN results |->
                  ExecCall("remove", targets[i].scope, targets[i].source)]

\* an installation whose polling ran out: one install command, ten listings
C21_Witness ==
    /\ mOp.kind = "install"
    /\ mpc = "done"
    /\ pResult = "undefined"
    /\ Len(MutatingCalls) = 1
    /\ Len(ListCalls) = 10

HasNote(n) == \E i \in DOMAIN notes : notes[i] = n

\* the polling of the running install or removal has run out
VisibilityTimeout ==
    mOp.kind \in {"install", "remove"} /\ pResult = "undefined"

\* what stands after a visibility timeout
SoftTimeout ==
    VisibilityTimeout =>
        /\ mpc \in {"install-poll", "remove-poll", "reload", "done"}
        /\ mOp.kind = "install" =>
              /\ history = <<HistoryEntry("install", mOp.normalized, TRUE)>>
              /\ MutatingCalls = <<ExecCall("install", mOp.scope, mOp.normalized)>>
              /\ ~HasNote("install-failed")
              /\ mpc \in {"reload", "done"} => Count(notes, "install-not-visible") = 1
        /\ mOp.kind = "remove" =>
              /\ history = [i \in DOMAIN results |->
                              HistoryEntry("remove", targets[i].source, results[i].success)]
              /\ \E i \in DOMAIN results : results[i].success
              /\ MutatingCalls =
                    [i \in DOMAIN targets |->
                        ExecCall("remove", targets[i].scope, targets[i].source)]
              /\ mpc \in {"reload", "done"} => Count(notes, "remove-not-visible") = 1
        /\ mpc = "done" => reloadRequests = 1

\* C23: a visibility-polling timeout is soft in install and in remove: when
\* the polling budget runs out the action emits its warning once, the
\* success recorded in the history stands, no install or remove command is
\* issued to undo or repeat the change, and the flow reaches the reload
\* confirmation (confirmReload is about to be called or has been called).
C23_TimeoutIsSoft ==
    /\ []SoftTimeout
    /\ VisibilityTimeout ~> (mpc = "reload" \/ reloadRequests = 1)

\* a removal whose polling ran out and whose reload confirmation was asked
C23_Witness ==
    /\ mOp.kind = "remove"
    /\ pResult = "undefined"
    /\ mpc = "done"
    /\ HasNote("remove-not-visible")
    /\ reloadRequests = 1

\* an update run has returned or stands at its reload confirmation
UpdateEnded == mOp.kind \in {"update", "updateAll"} /\ mpc \in {"reload", "done"}

\* confirmReload is about to be called or has been called
ReloadRequested == mpc = "reload" \/ reloadRequests = 1

\* the output holds the up-to-date phrase or a pinned status, whatever the
\* case of its letters
SaysUpToDate(stdout) ==
    AlreadyUpToDate(LowerCase(stdout)) \/ pinnedAsStatus(LowerCase(stdout))

FailureOutcome ==
    /\ history = <<HistoryEntry("update", mOp.source, FALSE)>>
    /\ knownUpdates = mOp.knownBefore
    /\ ~ReloadRequested
    /\ reloadRequests = 0

NoOpOutcome ==
    /\ history = <<HistoryEntry("update", mOp.source, TRUE)>>
    /\ knownUpdates = <<>>
    /\ ~ReloadRequested
    /\ reloadRequests = 0

UpdatedOutcome ==
    /\ history = <<HistoryEntry("update", mOp.source, TRUE)>>
    /\ knownUpdates = <<>>
    /\ ReloadRequested

RemovalCancelled ==
    /\ mOp.kind = "remove"
    /\ mOp.choice \in {"Cancel", "dismissed"} \/ mOp.answer = "no"

\* C26: a cancelled removal mutates nothing: when the user picks Cancel at
\* the scope prompt (shown when the package is installed in both scopes) or
\* closes it, or declines the confirmation, no remove command is executed,
\* no removal is logged in the history, and the outcome is reloaded = false.
C26_CancelledRemovalMutatesNothing ==
    RemovalCancelled =>
        /\ mpc = "done"
        /\ MutatingCalls = <<>>
        /\ history = <<>>
        /\ targets = <<>>
        /\ ~reloaded
        /\ reloadRequests = 0
        /\ settled = listing
        /\ knownUpdates = mOp.knownBefore

\* a removal of a package installed in both scopes whose scope prompt was closed
C26_Witness ==
    /\ mOp.kind = "remove"
    /\ mOp.choice = "dismissed"
    /\ mpc = "done"
    /\ HasNote("removal-cancelled")

\* executeRemovalTargets has returned
RemovalExecuted ==
    mOp.kind = "remove" /\ mpc \in {"remove-poll", "reload", "done"} /\ targets # <<>>

\* both scopes were targeted, the global removal succeeded, the project
\* removal failed
PartialFailure ==
    /\ RemovalExecuted
    /\ Len(results) = 2
    /\ results[1].target.scope = "global" /\ results[1].success
    /\ results[2].target.scope = "project" /\ ~results[2].success

\* what is recorded and reported for the executed targets
PerTargetResults ==
    /\ (mOp.kind = "remove" /\ mOp.choice = "Both" /\ mOp.answer = "yes"
            /\ mpc \in {"remove-poll", "reload", "done"}) =>
          /\ Len(results) = 2
          /\ results[1].target.scope = "global"
          /\ results[2].target.scope = "project"
    /\ RemovalExecuted =>
          /\ history = [i \in DOMAIN results |->
                          HistoryEntry("remove", results[i].target.source,
                                       results[i].success)]
          /\ MutatingCalls = [i \in DOMAIN results |->
                                ExecCall("remove", results[i].target.scope,
                                         results[i].target.source)]
    /\ PartialFailure =>
          /\ Len(failuresOf(results)) = 1
          /\ Len(successfulTargets(results)) = 1
          /\ Count(notes, "remove-failed") = 1
          /\ ~HasNote("removed")
          /\ mpc = "done" => reloadRequests = 1

\* C27: removal results are recorded per target and a failure does not stop
\* the later targets: a removal of both scopes runs both remove commands
\* whatever the first one's exit; when the global removal succeeds and the
\* project removal fails, exactly one success and exactly one error are
\* recorded, the error is reported, the success message of a full removal
\* is not emitted, and the reload confirmation is still requested.
C27_PerTargetResults ==
    /\ []PerTargetResults
    /\ PartialFailure ~> ReloadRequested

\* the partial failure, after its reload confirmation
C27_Witness ==
    /\ PartialFailure
    /\ mpc = "done"
    /\ reloadRequests = 1
    /\ HasNote("remove-failed")

AnyRemovalSucceeded == \E i \in DOMAIN results : results[i].success

\* C28: removePackage requests a reload if and only if at least one removal
\* target succeeded: a reload confirmation is reached only after a
\* successful target, a finished removal with a successful target has
\* requested it, and when every remove command exited non-zero no reload
\* is requested and no visibility polling is started.
C28_ReloadIffSuccess ==
    mOp.kind = "remove" =>
        /\ ReloadRequested => AnyRemovalSucceeded
        /\ (mpc = "done" /\ AnyRemovalSucceeded) => reloadRequests = 1
        /\ (mpc # "remove-exec" /\ ~AnyRemovalSucceeded) =>
              /\ mpc = "done"
              /\ reloadRequests = 0
              /\ ~reloaded
              /\ pResult = "idle"
              /\ evals = 0

\* a removal of two targets whose remove commands both exited non-zero
C28_Witness ==
    /\ mOp.kind = "remove"
    /\ mpc = "done"
    /\ Len(results) = 2
    /\ ~AnyRemovalSucceeded
    /\ reloadRequests = 0

\* the same path, whatever the separator; the case of the letters counts
SamePath(a, b) == ReplaceBackslashes(Trim(a)) = ReplaceBackslashes(Trim(b))

IsLocalPath(source) == source # <<>> /\ source[1] \in {"/", ".", "~"}

\* C29: removePackage(source) for a local-path source issues a remove
\* command only for the requested path: no other installed local path is
\* removed, whether it ends in the same file name or differs from the
\* requested path only in letter case.
C29_LocalRemovalExact ==
    (mOp.kind = "remove" /\ IsLocalPath(mOp.source)) =>
        /\ \A i \in DOMAIN MutatingCalls :
              /\ MutatingCalls[i].command = "remove"
              /\ SamePath(MutatingCalls[i].source, mOp.source)
        /\ \A i \in DOMAIN targets : SamePath(targets[i].source, mOp.source)
        /\ \A i \in DOMAIN settled :
              ~SamePath(settled[i].source, mOp.source) =>
                  \E j \in DOMAIN listing : listing[j] = settled[i]

\* "/b/i.ts" was removed while "/B/i.ts" or "/a/i.ts" was installed next to it
C29_Witness ==
    /\ mOp.kind = "remove"
    /\ mOp.source = L_b
    /\ mpc = "done"
    /\ MutatingCalls = <<ExecCall("remove", "global", L_b)>>
    /\ \E i \in DOMAIN mOp.installed :
          mOp.installed[i].source \in {L_B, L_a} /\ mOp.installed[i].scope = "global"
    /\ \E i \in DOMAIN settled : settled[i].source \in {L_B, L_a}

\* the two recordings of the package `demo`
DemoSources == { Src_npm_demo_v, Src_demo_pinned }

InBothScopes ==
    /\ mOp.kind = "remove"
    /\ \E i \in DOMAIN mOp.matching : mOp.matching[i].scope = "global"
    /\ \E i \in DOMAIN mOp.matching : mOp.matching[i].scope = "project"

\* C40: when a package is installed in both scopes and no interactive UI is
\* available, removePackage shows no prompt, targets the global-scope record
\* only, and issues exactly one remove command, for that record, and none
\* for the project-scope record.
C40_NoUIRemovesGlobalOnly ==
    (InBothScopes /\ ~mOp.hasUI) =>
        /\ mOp.choice = "none"
        /\ mOp.answer = "none"
        /\ targets = LastOfScope(mOp.matching, "global")
        /\ \A i \in DOMAIN MutatingCalls :
              /\ MutatingCalls[i].command = "remove"
              /\ MutatingCalls[i].scope = "global"
        /\ mpc # "remove-exec" =>
              MutatingCalls = <<ExecCall("remove", "global", targets[1].source)>>

\* a removal without a UI of a package installed in both scopes, after its
\* one remove command
C40_Witness ==
    /\ InBothScopes
    /\ ~mOp.hasUI
    /\ mpc = "done"
    /\ Len(results) = 1
    /\ results[1].target.scope = "global"
    /\ \E i \in DOMAIN mOp.matching :
          mOp.matching[i].scope = "project" /\ mOp.matching[i].source # targets[1].source

\* the arguments hold a project flag and the global flag
ConflictingFlags ==
    /\ \E i \in DOMAIN argv : argv[i] \in {T_project, T_l}
    /\ \E i \in DOMAIN argv : argv[i] = T_global

InstallCalls == SelectSeq(execCalls, LAMBDA c : c.command = "install")

\* with both flags no install command is issued, whatever else the handler does
C31_ConflictNeverInstalls ==
    ConflictingFlags => (InstallCalls = <<>> /\ mpc \in {"idle", "done"})

\* C31: when the install arguments contain both a project flag (--project
\* or -l) and --global, in either order, handleInstallSubcommand reports the
\* conflict and never invokes the external install command.
C31_ConflictReported ==
    (ConflictingFlags /\ mpc # "idle") =>
        /\ HasNote("not-both")
        /\ raised = "none"
        /\ InstallCalls = <<>>
        /\ mpc = "done"

\* without an argument that names an inherited property the conflict is
\* reported
C31_ConflictReportedOwnKeys ==
    (ConflictingFlags /\ mpc # "idle" /\ \A i \in DOMAIN argv : argv[i] # T_proto) =>
        /\ HasNote("not-both")
        /\ raised = "none"
        /\ InstallCalls = <<>>
        /\ mpc = "done"

\* position of a place in an order, 0 when it is not a member
PlaceRank(order, place) ==
    IF \E i \in DOMAIN order : order[i] = place
    THEN CHOOSE i \in DOMAIN order : order[i] = place
    ELSE 0

\* the lookup returned the first place of the order that holds a manifest,
\* and nothing when none of the order's places holds one
FirstOf(order) ==
    LET holding == { i \in DOMAIN order : order[i] \in rootLookup.manifests }
    IN  IF holding = {} THEN rootLookup.root = Undefined
        ELSE /\ PlaceRank(order, rootLookup.root.place) \in holding
             /\ \A i \in holding : PlaceRank(order, rootLookup.root.place) <= i

\* the lookup of a source that names a package is over
Looked == rootLookup.done /\ parseNpmSource(rootLookup.pkg.source).ok

\* C32 as stated: the candidates are tried project-local first, then
\* global, then the package-manager root, and the first one that holds a
\* manifest file is returned.
C32_ProjectGlobalRootOrder ==
    Looked =>
        FirstOf(<<"project-pi", "project-nm", "global-pi">>
                \o (IF rootLookup.npmGlobalRoot THEN <<"npm-root">> ELSE <<>>))

\* C32 (amended): the candidates depend on the package's scope.  For a
\* project-scope package they are the two project-local directories only;
\* for a global-scope package they are the package-manager root (when
\* `npm root -g` answered), then the global pi directory, then the two
\* project-local directories.  The first candidate that holds a manifest
\* file is returned, with the parsed package name, and nothing is returned
\* when no candidate holds one.
C32_ScopeDecidesOrder ==
    Looked =>
        /\ rootLookup.pkg.scope = "project" => FirstOf(<<"project-pi", "project-nm">>)
        /\ rootLookup.pkg.scope = "global" =>
              FirstOf((IF rootLookup.npmGlobalRoot THEN <<"npm-root">> ELSE <<>>)
                      \o <<"global-pi", "project-pi", "project-nm">>)
        /\ rootLookup.root # Undefined => rootLookup.root.name = Src_demo

\* a global package found in the package-manager root although a
\* project-local directory of its name holds a manifest too
C32_Witness ==
    /\ Looked
    /\ rootLookup.pkg.scope = "global"
    /\ rootLookup.manifests = {"project-pi", "npm-root", "global-pi"}
    /\ rootLookup.root = Candidate("npm-root", Src_demo)

\* C34: every settings write uses a temporary file name that no other write
\* in flight uses: two writeSettingsFile calls on the same settings path
\* that overlap in time, in the same process, never write to the same
\* temporary path.
C34_TmpNamesDistinct ==
    \A p, q \in Procs :
        (p # q /\ InFlight(p) /\ InFlight(q) /\ call[p].scope = call[q].scope) =>
            call[p].tmpName # call[q].tmpName

\* the extension paths whose state is compared before and after a call
FramePaths == { S_a, S_b, S_dot_a, S_sl_dot_a }

\* the state the resolver gives path q of the call's package in a file
StateIn(raw, p, q) == getPackageExtensionState(raw, call[p].source, q)

\* C35: toggling one extension does not change any other:
\* setPackageExtensionState(source, p, scope, target) leaves the resolved
\* state of every other extension path q (normalized q different from
\* normalized p) of the same package as it was before the call, for every
\* prior shape of the package's entry.
C35_OtherExtensionsUnchanged ==
    \A p \in Procs :
        (SetOk(p) /\ WellShapedBefore(p)) =>
            \A q \in FramePaths :
                normalizeRelativePath(q) # normalizeRelativePath(call[p].path) =>
                    StateIn(files[call[p].scope], p, q) = StateIn(call[p].before, p, q)

\* the same for the prior shapes other than the empty list, and for a path
\* that normalizeRelativePath leaves fixed after one normalization
C35_OtherExtensionsUnchangedNonEmpty ==
    \A p \in Procs :
        (/\ SetOk(p) /\ WellShapedBefore(p)
         /\ LET list == call[p].before.doc.packages.list
                index == findIndex(list, normalizeSource(call[p].source))
            IN  ~(index > 0 /\ list[index].kind = "object"
                    /\ list[index].extensions.kind = "array"
                    /\ list[index].extensions.list = <<>>)
         /\ normalizeRelativePath(normalizeRelativePath(call[p].path))
              = normalizeRelativePath(call[p].path)) =>
            \A q \in FramePaths :
                normalizeRelativePath(q) # normalizeRelativePath(call[p].path) =>
                    StateIn(files[call[p].scope], p, q) = StateIn(call[p].before, p, q)

\* C37: the read path degrades gracefully for every settings file that
\* parses to a JSON object: whatever the type of its packages field, of a
\* package entry, or of an entry's extensions field or tokens,
\* getPackageExtensionState returns enabled or disabled and raises no error.
C37_ReadNeverRaises ==
    (lastGet.valid /\ files[lastGet.scope].kind = "object") => lastGet.state \in States

\* C36: setPackageExtensionState changes only the target package's entry:
\* every other entry of the packages list keeps its value and its position,
\* and every top-level key of the settings document other than packages is
\* written back unchanged.
C36_OnlyTargetEntryChanges ==
    \A p \in Procs :
        SetOk(p) =>
            LET before == call[p].before.doc
                after == files[call[p].scope].doc
                index == findIndex(before.packages.list, normalizeSource(call[p].source))
            IN  /\ files[call[p].scope].kind = "object"
                /\ after.other = before.other
                /\ after.packages.kind = "array"
                /\ Len(after.packages.list)
                     = Len(before.packages.list) + (IF index = 0 THEN 1 ELSE 0)
                /\ \A i \in DOMAIN before.packages.list :
                      i # index => after.packages.list[i] = before.packages.list[i]

\* a call on a document with another top-level key and a second package
C36_Witness ==
    \E p \in Procs :
        /\ SetOk(p)
        /\ call[p].before.kind = "object"
        /\ call[p].before.doc.other = "theme"
        /\ Len(call[p].before.doc.packages.list) = 2
        /\ findIndex(call[p].before.doc.packages.list, normalizeSource(call[p].source)) = 1
        /\ files[call[p].scope].doc.packages.list[2] = BareEntry(Src_o)

\* the rows whose staged target differs from their original state
ChangedRows ==
    { i \in DOMAIN applyCall.rows :
        stagedTarget(applyCall.staged, applyCall.rows[i]) # applyCall.rows[i].originalState }

RowById(id) == applyCall.rows[CHOOSE i \in DOMAIN applyCall.rows : applyCall.rows[i].id = id]

\* every changed row is counted once and logged once, and only changed
\* rows that exist on disk reach setPackageExtensionState
ApplyAccounting ==
    /\ applyCall.changed + Len(applyCall.errors) = Cardinality(ChangedRows)
    /\ \A i \in DOMAIN applyCall.rows :
          Cardinality({ k \in DOMAIN applyCall.log :
                          applyCall.log[k].id = applyCall.rows[i].id })
            = (IF i \in ChangedRows THEN 1 ELSE 0)
    /\ \A k \in DOMAIN applyCall.setCalls :
          /\ RowById(applyCall.setCalls[k]).available
          /\ \E i \in ChangedRows : applyCall.rows[i].id = applyCall.setCalls[k]

\* every row written by the call resolves to its target in the file
WrittenRowsResolve ==
    \A k \in DOMAIN applyCall.written :
        getPackageExtensionState(files[applyCall.pkg.scope], applyCall.pkg.source,
                                 RowById(applyCall.written[k]).extensionPath)
          = stagedTarget(applyCall.staged, RowById(applyCall.written[k]))

\* C33: applyPackageExtensionChanges accounts for every changed row exactly
\* once: on return, changed + errors.length equals the number of rows whose
\* staged target differs from their original state, exactly one history
\* entry was logged for each such row, rows without a change and rows
\* missing on disk cause no settings write, and each row written earlier in
\* the same call still resolves to its target at the end.
C33_EveryChangedRowOnce ==
    applyCall.returned => (ApplyAccounting /\ WrittenRowsResolve)

\* the accounting alone holds for every input
C33_Accounting ==
    applyCall.returned => ApplyAccounting

\* the paths of the rows are left fixed by normalizeRelativePath and no two
\* rows name the same file
PlainRowPaths ==
    \A i, j \in DOMAIN applyCall.rows :
        /\ normalizeRelativePath(applyCall.rows[i].extensionPath)
             = applyCall.rows[i].extensionPath
        /\ i # j => applyCall.rows[i].extensionPath # applyCall.rows[j].extensionPath

\* for such rows the written rows resolve to their targets
C33_PlainRowsResolve ==
    (applyCall.returned /\ PlainRowPaths) => WrittenRowsResolve

-----------------------------------------------------------------------------
(* Properties of the auto-update timer *)

\* the calls and events the timer is stopped after
StoppingCalls == {"stopAutoUpdateTimer", "disableAutoUpdate", "session_shutdown"}

\* C38: at most one auto-update interval is live at any time; the running
\* flag isAutoUpdateRunning is true exactly when one is live; and after a
\* stop, a disable or a session shutdown none is live
C38_OneTimerFlagMatches ==
    /\ Cardinality(liveTimers) <= 1
    /\ isAutoUpdateRunning <=> liveTimers # {}
    /\ lastTimerCall \in StoppingCalls => liveTimers = {}

\* a second start has replaced a running timer: two intervals were created,
\* one is live and the flag is set
C38_Witness ==
    /\ timersCreated >= 2
    /\ liveTimers = {timersCreated}
    /\ isAutoUpdateRunning
    /\ lastTimerCall \in {"startAutoUpdateTimer", "enableAutoUpdate", "session_start"}

-----------------------------------------------------------------------------
(* Properties of the interactive manager *)

\* the manager is shown again right after "Stay in manager" was chosen
BackAfterStay ==
    /\ mgrPc = "list"
    /\ lastLeave.choice = "Stay in manager"

\* C39: when the manager is shown again after "Stay in manager", the number
\* of pending changes is the number the prompt was given at, and the state
\* on disk is what it was
C39_StayKeepsStaged ==
    BackAfterStay =>
        /\ getPendingToggleChangeCount(mStaged, mItems) = lastLeave.count
        /\ diskState = lastLeave.disk

\* the part of C39 that holds: "Stay in manager" writes nothing, up to and
\* including the moment the manager is shown again
C39_StayWritesNothing ==
    lastLeave.choice = "Stay in manager" => diskState = lastLeave.disk

====
